---- MODULE Spec2Model ----
(***************************************************************************)
(* Cerebrum: the resilient remote client of the front node                 *)
(* (cerebrum-pi/cerebrum/core/vps_client.py, class VPSClient), followed by *)
(* the admission gate of the front node, the capacity gate of the back     *)
(* node, the prompt compression pipeline (chunker, deduplicator, ranker,   *)
(* instruction parser, assembler), the model cache of the back node and    *)
(* the health probe of the client.  Each component has its own             *)
(* specification; the variables of the other components stay as            *)
(* constructed under it.                                                   *)
(*                                                                         *)
(* Every logical call of VPSClient.inference is a coroutine on one         *)
(* cooperative event loop: it runs without interruption between two        *)
(* suspension points (awaits).  An action below is one such uninterrupted  *)
(* segment.  The suspension points of inference are the semaphore          *)
(* acquisition (only when the semaphore is locked), the POST and the       *)
(* backoff sleep.                                                          *)
(*                                                                         *)
(* Time is kept the way the code reads it: the client never uses a clock   *)
(* reading by itself, only the difference time.time() - _last_failure_time *)
(* (compared with _cooldown_seconds) and the span of a sleep.  failure_age *)
(* is that difference in whole seconds, no longer counted once it has      *)
(* reached _cooldown_seconds; sleep_left is what remains of a sleep.       *)
(***************************************************************************)
EXTENDS Integers, Sequences, FiniteSets, TLC

\* ------------------------------------------------------------------ bounds
NumCalls == 2          \* logical inference calls issued on the one client
NumRequests == 4       \* requests arriving at the front node
NumChecks == 3         \* requests arriving at the back node
MaxTextLen == 5        \* characters of a text given to chunk_text
MaxWindow == 3         \* largest max_chars and overlap given to chunk_text
MaxChunkList == 3      \* chunks in a list given to dedupe_chunks
MaxPromptLen == 4      \* characters of a user_prompt given to assemble_prompt
MaxContext == 3        \* chunks in a list given to assemble_prompt
MaxBudget == 6         \* largest small max_context_chars given to assemble_prompt
BlockLines == 50       \* lines in one block of an inbound prompt
MaxBlocks == 14        \* blocks in the body of an inbound prompt
MaxAfter == 13         \* lines after the marker line of a prompt given to extract_instruction
AgeCap == 3            \* ticks after which the ages of cache entries are not told apart
MaxEngineCalls == 2    \* calls of Llama(...) by the model cache
MaxInferences == 1     \* inferences counted for one model id

\* ------------------------------------------------------- program constants
max_retries == 2       \* VPSClient.__init__(max_retries=2)
cooldown_seconds == 10 \* self._cooldown_seconds
backoff_cap == 5       \* min(2 ** attempt, 5)
semaphore_slots == 1   \* asyncio.Semaphore(1)
max_inflight == 2      \* LoadSheddingMiddleware.__init__(max_inflight=2)
MAX_CPU_PERCENT == 70  \* os.getenv("MAX_CPU_PERCENT", "70")
min_ram_gb == 1        \* available_ram < 1.0
max_context_chars == 2500   \* assemble_prompt(max_context_chars=2500)
chunk_max_chars == 1000     \* chunk_text(max_chars=1000)
chunk_overlap == 150        \* chunk_text(overlap=150)
chunk_threshold == 1500     \* should_chunk(threshold=1500)
top_k == 3                  \* k = min(3, len(unique_chunks) - 1)
query_tail_chars == 300     \* code[-300:]
prompt_limit == 16000       \* len(request.prompt) > 16_000
MAX_SCAN_LINES == 12        \* extract_instruction: only scan last N lines

Calls == 1..NumCalls

VARIABLES
    requests_sent,         \* self.requests_sent
    requests_successful,   \* self.requests_successful
    requests_failed,       \* self.requests_failed
    failure_age,           \* time.time() - self._last_failure_time
    sem_value,             \* self._semaphore._value
    sem_waiters,           \* self._semaphore._waiters (futures not yet woken)
    pc,                    \* where each call is suspended
    attempt,               \* the loop variable of each call
    sleep_left,            \* seconds left of the pending asyncio.sleep of a call
    last_error,            \* the local last_error of each call
    raised,                \* the exception a call has raised to its caller
    returned,              \* the attempt (1-based) whose body a call returned
    posts,                 \* POSTs each call has put on the network
    outcome,               \* what the latest POST of each call came back with
    net_only,              \* each earlier attempt of the call ended in a timeout
                           \* or a connection error
    d_sent, d_successful, d_failed   \* what each call added to the counters

vars == <<requests_sent, requests_successful, requests_failed,
          failure_age, sem_value, sem_waiters,
          pc, attempt, sleep_left, last_error, raised, returned, posts,
          outcome, net_only, d_sent, d_successful, d_failed>>

\* ------------------------------------------- state of the other components
VARIABLES
    inflight,              \* LoadSheddingMiddleware._inflight
    rq_pc,                 \* where each request to the front node is
    rq_path,               \* request.url.path of each request
    rq_response,           \* how dispatch ended for each request
    rq_released            \* times the finally clause ran for each request

VARIABLES
    cap_served,            \* requests check_capacity has seen
    cap_path,              \* request.url.path of the latest one
    cap_cpu,               \* the reading of get_cpu_usage(), tenths of a percent
    cap_ram,               \* mem.available of get_ram_info(), MiB
    cap_answer,            \* the response check_capacity gave
    cap_reason,            \* the reason of can_accept_request()
    cap_handled            \* call_next was invoked for the latest request

VARIABLES
    ck_pc,                 \* where chunk_text is
    ck_text, ck_max_chars, ck_overlap,   \* its arguments
    ck_start,              \* the local start
    ck_chunks,             \* the local chunks
    ck_spans               \* the slice bounds (start, end) of each chunk

VARIABLES
    dd_pc,                 \* dedupe_chunks applied 0, 1 or 2 times
    dd_chunks,             \* the argument chunks
    dd_salt,               \* which hash function str.__hash__ is in this process
    dd_once,               \* dedupe_chunks(chunks)
    dd_twice               \* dedupe_chunks(dedupe_chunks(chunks))

VARIABLES
    am_pc,                 \* assemble_prompt called or returned
    am_user_prompt, am_chunks, am_budget,   \* its arguments
    am_result              \* what it returned

VARIABLES
    pl_pc,                 \* a prompt has come in, was refused, or was handed on
    pl_route,              \* the function that ran the pipeline
    pl_prompt,             \* original_prompt
    pl_code, pl_instruction,   \* what extract_instruction returned
    pl_branch,             \* the branch of the pipeline that was taken
    pl_assembled,          \* assembled_prompt, where the branch built one
    pl_dispatched          \* the prompt handed to the remote client

gate_vars == <<inflight, rq_pc, rq_path, rq_response, rq_released>>
cap_vars == <<cap_served, cap_path, cap_cpu, cap_ram, cap_answer, cap_reason,
              cap_handled>>
ck_vars == <<ck_pc, ck_text, ck_max_chars, ck_overlap, ck_start, ck_chunks,
             ck_spans>>
dd_vars == <<dd_pc, dd_chunks, dd_salt, dd_once, dd_twice>>
am_vars == <<am_pc, am_user_prompt, am_chunks, am_budget, am_result>>
pl_vars == <<pl_pc, pl_route, pl_prompt, pl_code, pl_instruction, pl_branch,
             pl_assembled, pl_dispatched>>

VARIABLES
    rk_pc,                 \* select_top_chunks called or returned
    rk_chunks, rk_query, rk_k,   \* its arguments
    rk_result              \* what it returned

VARIABLES
    ip_pc,                 \* extract_instruction called or returned
    ip_prompt,             \* its argument
    ip_code, ip_instruction    \* the pair it returned

VARIABLES
    mc_models,             \* VPSModelEngine.models: the handle cached for each id
    mc_load_times,         \* VPSModelEngine.load_times, as the age of each entry
    mc_inference_count,    \* VPSModelEngine.inference_count
    mc_handles,            \* Llama objects made so far for each id
    mc_invoked,            \* Llama(...) calls for each id since it was last removed
    mc_made,               \* those of them that returned a model
    mc_engine_calls,       \* Llama(...) calls in all
    mc_last                \* the latest operation and what it answered

VARIABLES
    hc_pc,                 \* where the latest call of check_health or is_available is
    hc_caller,             \* which of the two was called
    hc_open_at_call,       \* the circuit breaker was open when it was called
    hc_gets,               \* GETs of /health it has put on the network
    hc_reply,              \* what came back
    hc_returned,           \* what check_health returned
    hc_raised,             \* the exception the call raised to its caller
    hc_answer              \* what is_available returned

rk_vars == <<rk_pc, rk_chunks, rk_query, rk_k, rk_result>>
ip_vars == <<ip_pc, ip_prompt, ip_code, ip_instruction>>
mc_vars == <<mc_models, mc_load_times, mc_inference_count, mc_handles,
             mc_invoked, mc_made, mc_engine_calls, mc_last>>hc_vars == <<hc_pc, hc_caller, hc_open_at_call, hc_gets, hc_reply,
             hc_returned, hc_raised, hc_answer>>

Requests == 1..NumRequests

\* LoadSheddingMiddleware.__init__ (lines 8-11): no request yet.
GateConstructed ==
    /\ inflight = 0
    /\ rq_pc = [r \in Requests |-> "new"]
    /\ rq_path = [r \in Requests |-> "none"]
    /\ rq_response = [r \in Requests |-> "none"]
    /\ rq_released = [r \in Requests |-> 0]

\* The back node before its first request.
CapacityIdle ==
    /\ cap_served = 0
    /\ cap_path = "none"
    /\ cap_cpu = 0
    /\ cap_ram = 0
    /\ cap_answer = "none"
    /\ cap_reason = ""
    /\ cap_handled = FALSE

\* chunk_text, dedupe_chunks and assemble_prompt not called.
ChunkerIdle ==
    /\ ck_pc = "off"
    /\ ck_text = ""
    /\ ck_max_chars = 0
    /\ ck_overlap = 0
    /\ ck_start = 0
    /\ ck_chunks = <<>>
    /\ ck_spans = <<>>

DedupeIdle ==
    /\ dd_pc = "off"
    /\ dd_chunks = <<>>
    /\ dd_salt = 0
    /\ dd_once = <<>>
    /\ dd_twice = <<>>

AssemblerIdle ==
    /\ am_pc = "off"
    /\ am_user_prompt = ""
    /\ am_chunks = <<>>
    /\ am_budget = 0
    /\ am_result = ""

PipelineIdle ==
    /\ pl_pc = "off"
    /\ pl_route = "none"
    /\ pl_prompt = ""
    /\ pl_code = ""
    /\ pl_instruction = ""
    /\ pl_branch = "none"
    /\ pl_assembled = ""
    /\ pl_dispatched = ""

\* select_top_chunks not called.
RankerIdle ==
    /\ rk_pc = "off"
    /\ rk_chunks = <<>>
    /\ rk_query = ""
    /\ rk_k = 0
    /\ rk_result = <<>>

\* extract_instruction not called.
ParserIdle ==
    /\ ip_pc = "off"
    /\ ip_prompt = ""
    /\ ip_code = ""
    /\ ip_instruction = ""

\* The ids that requests name: two of the registry and one that is not.
ModelIds == {"qwen_7b", "codellama_7b", "gpt_4"}

\* No operation yet.
NoOperation ==
    [op |-> "none", id |-> "none", cached_before |-> 0, file |-> "unchecked",
     engine |-> FALSE, error |-> "none", returned |-> 0, status |-> 0,
     before |-> {}, removed |-> 0, max_age |-> 0]

\* VPSModelEngine.__init__ (lines 122-126): three empty dicts.  A handle of
\* 0, an age of -1 and a count of -1 stand for no entry.
EngineConstructed ==
    /\ mc_models = [id \in ModelIds |-> 0]
    /\ mc_load_times = [id \in ModelIds |-> -1]
    /\ mc_inference_count = [id \in ModelIds |-> -1]
    /\ mc_handles = [id \in ModelIds |-> 0]
    /\ mc_invoked = [id \in ModelIds |-> 0]
    /\ mc_made = [id \in ModelIds |-> 0]
    /\ mc_engine_calls = 0
    /\ mc_last = NoOperation

\* No value: of a call that has not returned.
Nothing == [kind |-> "none", available |-> "none"]

\* check_health not called.
HealthIdle ==
    /\ hc_pc = "idle"
    /\ hc_caller = "none"
    /\ hc_open_at_call = FALSE
    /\ hc_gets = 0
    /\ hc_reply = "none"
    /\ hc_returned = Nothing
    /\ hc_raised = "none"
    /\ hc_answer = "none"

\* ------------------------------------------------------------- exceptions
NoError == [kind |-> "None", why |-> "none"]
VPSUnavailableError(why) == [kind |-> "VPSUnavailableError", why |-> why]
VPSInferenceError(why) == [kind |-> "VPSInferenceError", why |-> why]

\* What a POST can come back with: a status code, or an exception of httpx.
\* ok200 is a 200 whose body decodes, bad200 one whose response.json() raises.
Outcomes == {"ok200", "bad200", "s503", "s403", "sOther",
             "timeout", "connect", "unexpected"}

Min(a, b) == IF a < b THEN a ELSE b
Max(a, b) == IF a > b THEN a ELSE b

\* ------------------------------------------------------- circuit breaker
\* Variant: the window is taken one second too short.
CircuitOpenShort == failure_age < cooldown_seconds - 1

\* `time.time() - self._last_failure_time < self._cooldown_seconds`
CircuitOpen == failure_age < cooldown_seconds

\* `self._last_failure_time = time.time()`
StampedNow == 0

\* ------------------------------------------------------------- retry loop
\* The exception the try block ends with, as the except clauses record it.
ErrorOf(o) ==
    CASE o = "timeout" -> VPSUnavailableError("timeout")
      [] o = "connect" -> VPSUnavailableError("connect")
      [] o = "s503" -> VPSUnavailableError("overloaded")
      [] o = "s403" -> VPSInferenceError("auth")
      [] o = "sOther" -> VPSInferenceError("status")
      [] o = "bad200" -> VPSInferenceError("unexpected: undecodable body")
      [] OTHER -> VPSInferenceError("unexpected")

\* Variants: one more outcome is caught by a clause that sleeps and continues.
RetryableWith503(o) == o \in {"timeout", "connect", "unexpected", "bad200", "s503"}
RetryableWith403(o) == o \in {"timeout", "connect", "unexpected", "bad200", "s403"}
RetryableWithOther(o) == o \in {"timeout", "connect", "unexpected", "bad200", "sOther"}

\* The except clauses that sleep and continue (the others break).
Retryable(o) == o \in {"timeout", "connect", "unexpected", "bad200"}

\* Variant: the comparison is off by one.
AttemptsRemainOneMore(a) == a <= max_retries

\* `if attempt < self.max_retries`
AttemptsRemain(a) == a < max_retries

\* asyncio.sleep(min(2 ** attempt, 5))
Backoff(a) == Min(2 ^ a, backoff_cap)

\* Variant: the success counter is never updated.
CountsNever(o) == FALSE

\* The branch `if response.status_code == 200` updates the statistics
\* before response.json() is called.
CountsSuccess(o) == o \in {"ok200", "bad200"}

\* ---------------------------------------------------------------- semaphore
\* asyncio.Semaphore: acquire() returns at once when a permit is free and
\* nobody waits; otherwise the caller queues.  release() hands the permit to
\* the first waiter, which resumes later with the permit already taken.
\* Variant: acquire() never waits.
LockedNever == FALSE

Locked == sem_value = 0 \/ sem_waiters # <<>>

\* Variant: release() does not give the permit back.
ValueNotReleased == sem_value

ValueAfterRelease == IF sem_waiters = <<>> THEN sem_value + 1 ELSE sem_value

WaitersAfterRelease == IF sem_waiters = <<>> THEN <<>> ELSE Tail(sem_waiters)

\* Variant: release() wakes nobody.
PcAfterReleaseNobody(p) == p

PcAfterRelease(p) ==
    IF sem_waiters = <<>> THEN p ELSE [p EXCEPT ![Head(sem_waiters)] = "granted"]

Release(p) ==
    /\ sem_value' = ValueAfterRelease
    /\ sem_waiters' = WaitersAfterRelease
    /\ pc' = PcAfterRelease(p)

Without(s, c) == SelectSeq(s, LAMBDA x : x # c)


\* A call that returns, raises or is cancelled leaves its frame behind: its
\* locals, and the record kept here of what it did, end with it.  What stays
\* is what the caller sees (raised, returned) and the last outcome.
Gone(f, c) == [f EXCEPT ![c] = 0]

FrameGone(c) ==
    /\ attempt' = Gone(attempt, c)
    /\ sleep_left' = Gone(sleep_left, c)
    /\ last_error' = [last_error EXCEPT ![c] = NoError]
    /\ posts' = Gone(posts, c)
    /\ net_only' = [net_only EXCEPT ![c] = TRUE]
    /\ d_sent' = Gone(d_sent, c)
    /\ d_successful' = Gone(d_successful, c)
    /\ d_failed' = Gone(d_failed, c)

\* --------------------------------------------------------------------- Init
\* A client just constructed (lines 65-76): _last_failure_time = 0.0 is the
\* epoch, further back than the cooldown.
VPSClientConstructed ==
    /\ requests_sent = 0
    /\ requests_successful = 0
    /\ requests_failed = 0
    /\ failure_age = cooldown_seconds
    /\ sem_value = semaphore_slots
    /\ sem_waiters = <<>>
    /\ pc = [c \in Calls |-> "idle"]
    /\ attempt = [c \in Calls |-> 0]
    /\ sleep_left = [c \in Calls |-> 0]
    /\ last_error = [c \in Calls |-> NoError]
    /\ raised = [c \in Calls |-> NoError]
    /\ returned = [c \in Calls |-> 0]
    /\ posts = [c \in Calls |-> 0]
    /\ outcome = [c \in Calls |-> "none"]
    /\ net_only = [c \in Calls |-> TRUE]
    /\ d_sent = [c \in Calls |-> 0]
    /\ d_successful = [c \in Calls |-> 0]
    /\ d_failed = [c \in Calls |-> 0]

\* Every component but the named one is as constructed ...
Idle(component) ==
    /\ IF component = "client" THEN TRUE ELSE VPSClientConstructed
    /\ IF component = "gate" THEN TRUE ELSE GateConstructed
    /\ IF component = "capacity" THEN TRUE ELSE CapacityIdle
    /\ IF component = "chunker" THEN TRUE ELSE ChunkerIdle
    /\ IF component = "dedupe" THEN TRUE ELSE DedupeIdle
    /\ IF component = "assembler" THEN TRUE ELSE AssemblerIdle
    /\ IF component = "pipeline" THEN TRUE ELSE PipelineIdle
    /\ IF component = "ranker" THEN TRUE ELSE RankerIdle
    /\ IF component = "parser" THEN TRUE ELSE ParserIdle
    /\ IF component = "cache" THEN TRUE ELSE EngineConstructed
    /\ IF component = "health" THEN TRUE ELSE HealthIdle

\* ... and all but the named ones stay so.
UntouchedBut(components) ==
    /\ IF "client" \in components THEN TRUE ELSE UNCHANGED vars
    /\ IF "gate" \in components THEN TRUE ELSE UNCHANGED gate_vars
    /\ IF "capacity" \in components THEN TRUE ELSE UNCHANGED cap_vars
    /\ IF "chunker" \in components THEN TRUE ELSE UNCHANGED ck_vars
    /\ IF "dedupe" \in components THEN TRUE ELSE UNCHANGED dd_vars
    /\ IF "assembler" \in components THEN TRUE ELSE UNCHANGED am_vars
    /\ IF "pipeline" \in components THEN TRUE ELSE UNCHANGED pl_vars
    /\ IF "ranker" \in components THEN TRUE ELSE UNCHANGED rk_vars
    /\ IF "parser" \in components THEN TRUE ELSE UNCHANGED ip_vars
    /\ IF "cache" \in components THEN TRUE ELSE UNCHANGED mc_vars
    /\ IF "health" \in components THEN TRUE ELSE UNCHANGED hc_vars

Untouched(component) == UntouchedBut({component})

Init ==
    /\ VPSClientConstructed
    /\ Idle("client")

stats == <<requests_sent, requests_successful, requests_failed>>
semaphore == <<sem_value, sem_waiters>>
seen == <<outcome, raised, returned>>

\* ------------------------------------------------------------------ actions
\* One second passes.
Tick ==
    /\ failure_age' = Min(failure_age + 1, cooldown_seconds)
    /\ sleep_left' = [c \in Calls |-> Max(sleep_left[c] - 1, 0)]
    /\ UNCHANGED <<stats, semaphore, pc, seen, attempt, last_error, posts,
                   net_only, d_sent, d_successful, d_failed>>
    /\ Untouched("client")

\* Variant: the rejection is recorded as a failure.
RejectStamping(c) ==
    /\ pc[c] = "idle"
    /\ CircuitOpen
    /\ pc' = [pc EXCEPT ![c] = "raised"]
    /\ raised' = [raised EXCEPT ![c] = VPSUnavailableError("cooldown")]
    /\ failure_age' = StampedNow
    /\ UNCHANGED <<stats, semaphore, outcome, returned, attempt,
                   sleep_left, last_error, posts, net_only, d_sent,
                   d_successful, d_failed>>
    /\ Untouched("client")

\* inference() is called while the circuit is open: lines 139-143.
Reject(c) ==
    /\ pc[c] = "idle"
    /\ CircuitOpen
    /\ pc' = [pc EXCEPT ![c] = "raised"]
    /\ raised' = [raised EXCEPT ![c] = VPSUnavailableError("cooldown")]
    /\ UNCHANGED <<stats, failure_age, semaphore, outcome, returned, attempt,
                   sleep_left, last_error, posts, net_only, d_sent,
                   d_successful, d_failed>>
    /\ Untouched("client")

\* inference() is called while the circuit is closed: lines 145-170, up to
\* the first suspension, which is the POST when the permit is free and the
\* wait for the permit when it is not.
BeginInference(c) ==
    /\ pc[c] = "idle"
    /\ ~CircuitOpen
    /\ requests_sent' = requests_sent + 1
    /\ d_sent' = [d_sent EXCEPT ![c] = @ + 1]
    /\ IF Locked
         THEN /\ sem_waiters' = Append(sem_waiters, c)
              /\ pc' = [pc EXCEPT ![c] = "waiting"]
              /\ UNCHANGED <<sem_value, posts>>
         ELSE /\ sem_value' = sem_value - 1
              /\ pc' = [pc EXCEPT ![c] = "posting"]
              /\ posts' = [posts EXCEPT ![c] = @ + 1]
              /\ UNCHANGED sem_waiters
    /\ UNCHANGED <<requests_successful, requests_failed, failure_age, seen,
                   attempt, sleep_left, last_error, net_only, d_successful,
                   d_failed>>

Begin(c) ==
    /\ BeginInference(c)
    /\ Untouched("client")

\* A call that was handed the permit resumes inside `async with` and sends
\* its first POST: lines 161-170.
Resume(c) ==
    /\ pc[c] = "granted"
    /\ pc' = [pc EXCEPT ![c] = "posting"]
    /\ posts' = [posts EXCEPT ![c] = @ + 1]
    /\ UNCHANGED <<stats, failure_age, semaphore, seen, attempt, sleep_left,
                   last_error, net_only, d_sent, d_successful, d_failed>>
    /\ Untouched("client")

\* The backoff sleep of a call is over: `continue`, and the next POST.
Wake(c) ==
    /\ pc[c] = "sleeping"
    /\ sleep_left[c] = 0
    /\ attempt' = [attempt EXCEPT ![c] = @ + 1]
    /\ pc' = [pc EXCEPT ![c] = "posting"]
    /\ posts' = [posts EXCEPT ![c] = @ + 1]
    /\ UNCHANGED <<stats, failure_age, semaphore, seen, sleep_left,
                   last_error, net_only, d_sent, d_successful, d_failed>>
    /\ Untouched("client")

\* `return result`, through the exit of `async with`: line 184.
Return(c) ==
    /\ returned' = [returned EXCEPT ![c] = attempt[c] + 1]
    /\ Release([pc EXCEPT ![c] = "returned"])
    /\ FrameGone(c)
    /\ UNCHANGED <<requests_failed, failure_age, raised>>

\* Variant: the except clause stamps the failure before it sleeps.
RetryStamping(c, o) ==
    /\ last_error' = [last_error EXCEPT ![c] = ErrorOf(o)]
    /\ sleep_left' = [sleep_left EXCEPT ![c] = Backoff(attempt[c])]
    /\ pc' = [pc EXCEPT ![c] = "sleeping"]
    /\ net_only' = [net_only EXCEPT ![c] = @ /\ o \in {"timeout", "connect"}]
    /\ d_successful' =
          [d_successful EXCEPT ![c] = IF CountsSuccess(o) THEN @ + 1 ELSE @]
    /\ failure_age' = StampedNow
    /\ UNCHANGED <<requests_failed, raised, returned, semaphore,
                   attempt, posts, d_sent, d_failed>>

\* The except clause records the error, sleeps and continues.
Retry(c, o) ==
    /\ last_error' = [last_error EXCEPT ![c] = ErrorOf(o)]
    /\ sleep_left' = [sleep_left EXCEPT ![c] = Backoff(attempt[c])]
    /\ pc' = [pc EXCEPT ![c] = "sleeping"]
    /\ net_only' = [net_only EXCEPT ![c] = @ /\ o \in {"timeout", "connect"}]
    /\ d_successful' =
          [d_successful EXCEPT ![c] = IF CountsSuccess(o) THEN @ + 1 ELSE @]
    /\ UNCHANGED <<requests_failed, failure_age, raised, returned, semaphore,
                   attempt, posts, d_sent, d_failed>>

\* The except clause records the error and the loop ends (break, or no
\* attempt left); `async with` is left and lines 234-238 run.
GiveUp(c, o) ==
    /\ Release([pc EXCEPT ![c] = "raised"])
    /\ requests_failed' = requests_failed + 1
    /\ failure_age' = StampedNow
    /\ raised' = [raised EXCEPT ![c] = ErrorOf(o)]
    /\ FrameGone(c)
    /\ UNCHANGED returned

\* The POST of a call comes back with outcome o: lines 172-238.
Respond(c, o) ==
    /\ pc[c] = "posting"
    /\ outcome' = [outcome EXCEPT ![c] = o]
    /\ requests_successful' =
          IF CountsSuccess(o) THEN requests_successful + 1 ELSE requests_successful
    /\ IF o = "ok200" THEN Return(c)
       ELSE IF Retryable(o) /\ AttemptsRemain(attempt[c]) THEN Retry(c, o)
       ELSE GiveUp(c, o)
    /\ UNCHANGED requests_sent
    /\ Untouched("client")

\* The task running a call is cancelled at one of its suspension points:
\* CancelledError is no Exception, so no except clause of the loop sees it,
\* and it leaves through `async with` without reaching lines 234-238.
Cancel(c) ==
    /\ pc[c] \in {"waiting", "granted", "posting", "sleeping"}
    /\ IF pc[c] = "waiting"
         THEN /\ sem_waiters' = Without(sem_waiters, c)
              /\ pc' = [pc EXCEPT ![c] = "cancelled"]
              /\ UNCHANGED sem_value
         ELSE Release([pc EXCEPT ![c] = "cancelled"])
    /\ outcome' = [outcome EXCEPT ![c] = "none"]
    /\ FrameGone(c)
    /\ UNCHANGED <<stats, failure_age, raised, returned>>
    /\ Untouched("client")

Next ==
    \/ Tick
    \/ \E c \in Calls : Reject(c)
    \/ \E c \in Calls : Begin(c)
    \/ \E c \in Calls : Resume(c)
    \/ \E c \in Calls : Wake(c)
    \/ \E c \in Calls, o \in Outcomes : Respond(c, o)
    \/ \E c \in Calls : Cancel(c)

Spec == Init /\ [][Next]_vars

\* ----------------------------------------------------------- steps of a call
\* inference() is called for c in this step.
Called(c) == pc[c] = "idle" /\ pc'[c] # "idle"

\* c puts a POST on the network in this step.
Sends(c) == posts'[c] = posts[c] + 1

\* The POST of c comes back with outcome o in this step.
Answered(c, o) == pc[c] = "posting" /\ pc'[c] # "posting" /\ outcome'[c] = o

\* The permits that are out: handed over, or held inside `async with`.
Holders == {c \in Calls : pc[c] \in {"granted", "posting", "sleeping"}}

\* ------------------------------------------------------------------- claims

\* C1: no call puts a request on the network at a moment when
\* now - _last_failure_time < _cooldown_seconds, also not a call that passed
\* the circuit check earlier and waited for the permit meanwhile.
C1_NoPostWhileCircuitOpen ==
    [][\A c \in Calls : Sends(c) => ~(failure_age < cooldown_seconds)]_vars

\* C2: once a call has ended on a 503, the failure is stamped now, the age of
\* the last failure grows only as seconds pass, and every call made while that
\* age is below _cooldown_seconds raises VPSUnavailableError in the same step,
\* sends nothing (then or later) and leaves requests_sent alone.
C2_FailFastAfterOverload ==
    /\ [][\A c \in Calls : Answered(c, "s503") => failure_age' = 0]_vars
    /\ [][failure_age' > failure_age =>
             failure_age' = failure_age + 1 /\ UNCHANGED <<pc, stats>>]_vars
    /\ [][\A c \in Calls :
             ( /\ Called(c)
               /\ \E d \in Calls : pc[d] = "raised" /\ outcome[d] = "s503"
               /\ failure_age < cooldown_seconds )
             => /\ pc'[c] = "raised"
                /\ raised'[c] = VPSUnavailableError("cooldown")
                /\ posts'[c] = 0
                /\ UNCHANGED <<stats, semaphore, failure_age>>]_vars
    /\ [](\A c \in Calls :
             raised[c] = VPSUnavailableError("cooldown")
             => pc[c] = "raised" /\ posts[c] = 0 /\ outcome[c] = "none")

C2_Witness ==
    \E c, d \in Calls :
        /\ pc[d] = "raised" /\ outcome[d] = "s503"
        /\ pc[c] = "raised" /\ raised[c] = VPSUnavailableError("cooldown")
        /\ failure_age = cooldown_seconds - 1
        /\ requests_sent = 1

\* C3: a 503 to any attempt ends the call in that step: it raises
\* VPSUnavailableError, adds one to requests_failed (its first and only
\* addition), stamps _last_failure_time with the current time, and the call
\* never posts again.
C3_OverloadedIsTerminal ==
    /\ [][\A c \in Calls : Answered(c, "s503") =>
             /\ pc'[c] = "raised"
             /\ raised'[c] = VPSUnavailableError("overloaded")
             /\ d_failed[c] = 0
             /\ requests_failed' = requests_failed + 1
             /\ failure_age' = 0]_vars
    /\ [](\A c \in Calls : outcome[c] = "s503" => pc[c] = "raised")

C3_Witness ==
    \E c \in Calls :
        /\ outcome[c] = "s503" /\ pc[c] = "raised"
        /\ raised[c] = VPSUnavailableError("overloaded")
        /\ requests_failed = 1 /\ failure_age = 0
        /\ requests_sent = 1 /\ requests_successful = 1

\* C4: a call that ends on a 403 leaves _last_failure_time as it was.
C4_AuthNotCounted ==
    [][\A c \in Calls : Answered(c, "s403") => failure_age' = failure_age]_vars

\* C5: whenever the latest answer to a call is a 403, the call has raised
\* the authentication error: it is not sleeping and it is not posting again,
\* whatever retries remained.
C5_AuthIsTerminal ==
    \A c \in Calls :
        outcome[c] = "s403"
        => /\ pc[c] = "raised"
           /\ raised[c] = VPSInferenceError("auth")
           /\ sleep_left[c] = 0

C5_Witness ==
    \E c \in Calls :
        /\ outcome[c] = "s403" /\ pc[c] = "raised"
        /\ raised[c] = VPSInferenceError("auth")
        /\ requests_successful = 0 /\ requests_sent = 1

C7_RetryThenSuccess ==
    [][\A c \in Calls : Answered(c, "ok200") /\ net_only[c] =>
          /\ pc'[c] = "returned"
          /\ posts[c] = attempt[c] + 1
          /\ returned'[c] = posts[c]
          /\ d_sent[c] = 1 /\ d_successful[c] = 0 /\ d_failed[c] = 0
          /\ requests_sent' = requests_sent
          /\ requests_successful' = requests_successful + 1
          /\ requests_failed' = requests_failed]_vars

C7_Witness ==
    \E c \in Calls :
        /\ pc[c] = "returned" /\ returned[c] = max_retries + 1
        /\ \A d \in Calls \ {c} : pc[d] = "idle"
        /\ requests_sent = 1 /\ requests_successful = 1 /\ requests_failed = 0

\* C8: a call whose attempts all fail with a retryable error sleeps and posts
\* again while it has made fewer than max_retries + 1 POSTs, never makes more,
\* and then raises the error of its last attempt, adds one to
\* requests_failed and stamps _last_failure_time.
C8_ExhaustionFails ==
    /\ [][\A c \in Calls :
             \A o \in {"timeout", "connect", "unexpected", "bad200"} :
                Answered(c, o) =>
                   IF posts[c] < max_retries + 1
                     THEN pc'[c] = "sleeping" /\ UNCHANGED <<requests_failed, failure_age>>
                     ELSE /\ pc'[c] = "raised"
                          /\ raised'[c] = ErrorOf(o)
                          /\ d_failed[c] = 0
                          /\ requests_failed' = requests_failed + 1
                          /\ failure_age' = 0]_vars
    /\ [](\A c \in Calls : posts[c] <= max_retries + 1)

C8_Witness ==
    \E c \in Calls :
        /\ pc[c] = "raised" /\ outcome[c] = "timeout"
        /\ raised[c] = VPSUnavailableError("timeout")
        /\ requests_failed = 1 /\ failure_age = 0

\* C9: at most one POST is in flight at any time.
C9_OnePostInFlight ==
    Cardinality({c \in Calls : pc[c] = "posting"}) <= semaphore_slots

C9_Witness ==
    \E c, d \in Calls : pc[c] = "posting" /\ pc[d] = "waiting"

\* C10: the permits that are free and the permits that are out always add up
\* to the initial count: a call has the permit from before its first POST to
\* its exit, sleeps included, and gives it back on every exit; so the count
\* is back at its initial value whenever no call is active.
C10_PermitConserved ==
    /\ sem_value >= 0
    /\ sem_value + Cardinality(Holders) = semaphore_slots
    /\ \A c \in Calls : posts[c] > 0 => c \in Holders

C10_Witness ==
    /\ sem_value = semaphore_slots
    /\ \E c, d \in Calls :
        /\ pc[c] = "cancelled"
        /\ pc[d] = "raised" /\ outcome[d] = "unexpected"

TypeOK ==
    /\ failure_age \in 0..cooldown_seconds
    /\ sem_value \in 0..semaphore_slots
    /\ pc \in [Calls -> {"idle", "waiting", "granted", "posting", "sleeping",
                         "returned", "raised", "cancelled"}]

\* ======================================================================
\* The admission gate of the front node: LoadSheddingMiddleware
\* (cerebrum-pi/cerebrum/api/middleware/load_shed.py).  dispatch runs on the
\* event loop of the front node; its one suspension point is
\* `await call_next(request)`.
\* ======================================================================
Paths == {"/health", "/v1/complete"}
Endings == {"returned", "raised", "cancelled"}

\* Line 14 with > for >=.
AtLimitAbove(n) == n > max_inflight

\* `if self._inflight >= self._max`: line 14.
AtLimit(n) == n >= max_inflight

\* A finally clause that is an else clause: it runs on a normal return only.
AfterFinallyOnReturn(n, how) == IF how = "returned" THEN n - 1 ELSE n

\* `finally: self._inflight -= 1`, however call_next ended: lines 26-27.
AfterFinally(n, how) == n - 1

InitGate ==
    /\ GateConstructed
    /\ Idle("gate")

\* A request with path p arrives: dispatch runs up to its 503 (lines 14-21)
\* or up to `await call_next(request)` (lines 23-25).
Dispatch(r, p) ==
    /\ rq_pc[r] = "new"
    /\ rq_path' = [rq_path EXCEPT ![r] = p]
    /\ IF AtLimit(inflight)
         THEN /\ rq_response' = [rq_response EXCEPT ![r] = "503"]
              /\ rq_pc' = [rq_pc EXCEPT ![r] = "done"]
              /\ UNCHANGED inflight
         ELSE /\ inflight' = inflight + 1
              /\ rq_pc' = [rq_pc EXCEPT ![r] = "handling"]
              /\ UNCHANGED rq_response
    /\ UNCHANGED <<rq_released>>
    /\ Untouched("gate")

\* call_next of an admitted request returns a response, raises, or the task
\* is cancelled while it waits: the finally clause runs (lines 26-27).
Finish(r, how) ==
    /\ rq_pc[r] = "handling"
    /\ inflight' = AfterFinally(inflight, how)
    /\ rq_released' = [rq_released EXCEPT ![r] = @ + (inflight - inflight')]
    /\ rq_response' = [rq_response EXCEPT ![r] = how]
    /\ rq_pc' = [rq_pc EXCEPT ![r] = "done"]
    /\ UNCHANGED <<rq_path>>
    /\ Untouched("gate")

NextGate ==
    \/ \E r \in Requests, p \in Paths : Dispatch(r, p)
    \/ \E r \in Requests, how \in Endings : Finish(r, how)

SpecGate == InitGate /\ [][NextGate]_gate_vars

\* The requests inside call_next.
Outstanding == {r \in Requests : rq_pc[r] = "handling"}

\* dispatch is entered for r in this step.
Arrives(r) == rq_pc[r] = "new" /\ rq_pc'[r] # "new"

\* C11: a request is admitted exactly when fewer than max_inflight requests
\* are outstanding at its arrival; one arriving while max_inflight are
\* outstanding gets 503 and leaves _inflight as it was; _inflight stays
\* within 0..max_inflight.
C11_AdmitsBelowLimit ==
    [][/\ inflight' \in 0..max_inflight
       /\ \A r \in Requests :
            Arrives(r) =>
              IF Cardinality(Outstanding) < max_inflight
                THEN /\ rq_pc'[r] = "handling"
                     /\ inflight' = inflight + 1
                ELSE /\ rq_pc'[r] = "done"
                     /\ rq_response'[r] = "503"
                     /\ inflight' = inflight]_gate_vars

\* One request was shed while max_inflight were outstanding, one of those
\* has completed and a later one took its place.
C11_Witness ==
    \E a, b, c, d \in Requests :
        /\ rq_response[a] = "503"
        /\ rq_response[b] = "returned"
        /\ rq_pc[c] = "handling" /\ rq_pc[d] = "handling" /\ c # d
        /\ inflight = max_inflight

\* C12: _inflight is the number of admitted requests that have not
\* finished, and the finally clause has run exactly once for every admitted
\* request that has finished (however it finished) and never for another.
C12_CounterIsOutstanding ==
    /\ inflight = Cardinality(Outstanding)
    /\ \A r \in Requests :
         rq_released[r] =
            IF rq_pc[r] = "done" /\ rq_response[r] \in Endings THEN 1 ELSE 0

\* Every request is over, one by an exception of the handler and one by
\* cancellation, and the counter is back at 0.
C12_Witness ==
    /\ inflight = 0
    /\ \A r \in Requests : rq_pc[r] = "done"
    /\ \E r, s \in Requests :
         rq_response[r] = "raised" /\ rq_response[s] = "cancelled"

\* C13: a health request is served and is not counted, even while
\* max_inflight other requests are outstanding.
C13_HealthBypassesGate ==
    /\ \A r \in Requests : rq_path[r] = "/health" => rq_response[r] # "503"
    /\ inflight = Cardinality({r \in Outstanding : rq_path[r] # "/health"})

TypeOKGate ==
    /\ inflight \in Int
    /\ rq_pc \in [Requests -> {"new", "handling", "done"}]
    /\ rq_path \in [Requests -> Paths \cup {"none"}]
    /\ rq_response \in [Requests -> Endings \cup {"none", "503"}]
    /\ rq_released \in [Requests -> Int]

\* ======================================================================
\* The capacity gate of the back node: VPSModelEngine.can_accept_request
\* and the middleware check_capacity (cerebrum-backend/vps_server/main.py).
\* A CPU reading is kept in tenths of a percent (psutil reports one
\* decimal) and available memory in MiB, so that both stay integers:
\* available / (1024**3) < 1.0 is available_MiB < 1024.
\* ======================================================================
BackPaths == {"/health", "/v1/inference"}
MiBPerGiB == 1024
CpuLimit == 10 * MAX_CPU_PERCENT
RamFloor == min_ram_gb * MiBPerGiB

\* Readings below, at and above each threshold.
CpuReadings == {0, CpuLimit - 1, CpuLimit, CpuLimit + 1, 1000}
RamReadings == {0, RamFloor - 1, RamFloor, RamFloor + 1, 4 * MiBPerGiB}

\* f"{x:.1f}" of a value given in tenths.
OneDecimal(tenths) == ToString(tenths \div 10) \o "." \o ToString(tenths % 10)

\* MiB as tenths of a GiB, to the nearest.
GiBTenths(mib) == (20 * mib + MiBPerGiB) \div (2 * MiBPerGiB)

\* Line 143 with >= for >.
CpuTooHighAtLimit(cpu) == cpu >= CpuLimit

\* `if cpu_usage > MAX_CPU_PERCENT`: line 143.
CpuTooHigh(cpu) == cpu > CpuLimit

\* `if available_ram < 1.0`: line 147.
RamTooLow(ram) == ram < RamFloor

\* can_accept_request: lines 139-150.  The pair it returns.
can_accept_request(cpu, ram) ==
    IF CpuTooHigh(cpu)
      THEN <<FALSE, "CPU usage too high: " \o OneDecimal(cpu) \o "%">>
    ELSE IF RamTooLow(ram)
      THEN <<FALSE, "Insufficient RAM: " \o OneDecimal(GiBTenths(ram)) \o "GB">>
    ELSE <<TRUE, "Available">>

InitCapacity ==
    /\ CapacityIdle
    /\ Idle("capacity")

\* check_capacity: lines 244-264, for a request with path p that arrives
\* while the machine reads cpu and ram.
check_capacity(p, cpu, ram) ==
    /\ cap_served < NumChecks
    /\ cap_served' = cap_served + 1
    /\ cap_path' = p
    /\ cap_cpu' = cpu
    /\ cap_ram' = ram
    /\ IF p = "/health"
         THEN /\ cap_answer' = "call_next"
              /\ cap_reason' = ""
              /\ cap_handled' = TRUE
         ELSE LET verdict == can_accept_request(cpu, ram) IN
              /\ cap_reason' = verdict[2]
              /\ cap_answer' = IF verdict[1] THEN "call_next" ELSE "503"
              /\ cap_handled' = verdict[1]
    /\ Untouched("capacity")

NextCapacity ==
    \E p \in BackPaths, cpu \in CpuReadings, ram \in RamReadings :
        check_capacity(p, cpu, ram)

SpecCapacity == InitCapacity /\ [][NextCapacity]_cap_vars

\* C14: a unit of work is rejected exactly when the CPU reading is strictly
\* above MAX_CPU_PERCENT or available memory is strictly below 1 GiB; a
\* rejection has a reason, is answered 503 and does not reach the handler;
\* anything else is passed to the handler.
C14_RejectsOnlyPastThresholds ==
    (cap_served > 0 /\ cap_path # "/health") =>
        /\ cap_answer = "503" <=>
              (cap_cpu > 10 * MAX_CPU_PERCENT \/ cap_ram < MiBPerGiB * min_ram_gb)
        /\ cap_answer = "503" => (Len(cap_reason) > 0 /\ ~cap_handled)
        /\ cap_answer # "503" => (cap_answer = "call_next" /\ cap_handled)

\* Both readings exactly at their thresholds: accepted.
C14_Witness ==
    /\ cap_path = "/v1/inference"
    /\ cap_cpu = 10 * MAX_CPU_PERCENT
    /\ cap_ram = MiBPerGiB * min_ram_gb
    /\ cap_answer = "call_next"
    /\ cap_handled

\* ======================================================================
\* The chunker: chunk_text (cerebrum-pi/cerebrum/retrieval/chunker.py).
\* A Python str is a TLA+ string; one pass of the while loop is one step.
\* ======================================================================
Alphabet == {"a", "b"}

RECURSIVE TextsOfLen(_)
TextsOfLen(n) ==
    IF n = 0 THEN {""}
    ELSE {t \o c : t \in TextsOfLen(n - 1), c \in Alphabet}

\* Every text over Alphabet of at most n characters.
Texts(n) == UNION {TextsOfLen(k) : k \in 0..n}

\* The slice text[from:to] for 0 <= from and to <= len(text).
Slice(text, from, to) == SubSeq(text, from + 1, to)

\* No text is short enough: every text goes through the loop.
FitsInOneNever(text, max_chars) == FALSE

\* `if len(text) <= max_chars`: line 32.
FitsInOne(text, max_chars) == Len(text) <= max_chars

\* Line 47 without the overlap.
NextStartNoOverlap(end, overlap) == end

\* `start = end - overlap`: line 47.
NextStart(end, overlap) == end - overlap

\* `if start < 0: start = 0`: lines 50-51.
Clamped(start) == IF start < 0 THEN 0 ELSE start

\* The while loop of lines 39-51 from the given start on: the chunks at
\* `return chunks`.
RECURSIVE ChunkLoop(_, _, _, _, _)
ChunkLoop(text, max_chars, overlap, start, chunks) ==
    IF ~(start < Len(text)) THEN chunks
    ELSE LET end == Min(start + max_chars, Len(text))
             more == Append(chunks, Slice(text, start, end))
         IN  IF end = Len(text) THEN more
             ELSE ChunkLoop(text, max_chars, overlap,
                            Clamped(NextStart(end, overlap)), more)

\* chunk_text as a function, for the calls that return: lines 16-53.
chunk_text(text, max_chars, overlap) ==
    IF FitsInOne(text, max_chars) THEN <<text>>
    ELSE ChunkLoop(text, max_chars, overlap, 0, <<>>)

\* A text of exactly the threshold is chunked as well.
should_chunk_at_threshold(text) == Len(text) >= chunk_threshold

\* `return len(text) > threshold`: line 67.
should_chunk(text) == Len(text) > chunk_threshold

\* chunk_text is called with a text, a max_chars >= 1 and an overlap >= 0.
InitChunker ==
    /\ ck_pc = "called"
    /\ ck_text \in Texts(MaxTextLen)
    /\ ck_max_chars \in 1..MaxWindow
    /\ ck_overlap \in 0..MaxWindow
    /\ ck_start = 0
    /\ ck_chunks = <<>>
    /\ ck_spans = <<>>
    /\ Idle("chunker")

\* Lines 32-37: the text is returned whole, or the loop is set up.
Enter ==
    /\ ck_pc = "called"
    /\ IF FitsInOne(ck_text, ck_max_chars)
         THEN /\ ck_chunks' = <<ck_text>>
              /\ ck_pc' = "returned"
         ELSE /\ ck_chunks' = <<>>
              /\ ck_pc' = "loop"
    /\ ck_start' = 0
    /\ UNCHANGED <<ck_text, ck_max_chars, ck_overlap, ck_spans>>
    /\ Untouched("chunker")

\* Lines 39-53: the loop condition is tested and one pass of the body runs,
\* or the loop is left.  A call that is still in the loop after one pass
\* more than the text has characters is followed no further.
Iterate ==
    /\ ck_pc = "loop"
    /\ Len(ck_chunks) <= Len(ck_text)
    /\ IF ck_start < Len(ck_text)
         THEN LET end == Min(ck_start + ck_max_chars, Len(ck_text)) IN
              /\ ck_chunks' = Append(ck_chunks, Slice(ck_text, ck_start, end))
              /\ ck_spans' = Append(ck_spans, <<ck_start, end>>)
              /\ IF end = Len(ck_text)
                   THEN /\ ck_pc' = "returned"
                        /\ UNCHANGED ck_start
                   ELSE /\ ck_start' = Clamped(NextStart(end, ck_overlap))
                        /\ UNCHANGED ck_pc
         ELSE /\ ck_pc' = "returned"
              /\ UNCHANGED <<ck_start, ck_chunks, ck_spans>>
    /\ UNCHANGED <<ck_text, ck_max_chars, ck_overlap>>
    /\ Untouched("chunker")

NextChunker == Enter \/ Iterate

SpecChunker == InitChunker /\ [][NextChunker]_ck_vars

\* C17: a text of at most max_chars characters comes back as one chunk,
\* the text itself.
C17_ShortTextIsOneChunk ==
    (ck_pc = "returned" /\ Len(ck_text) <= ck_max_chars) =>
        ck_chunks = <<ck_text>>

\* A text of exactly max_chars characters has come back.
C17_Witness ==
    /\ ck_pc = "returned"
    /\ Len(ck_text) = ck_max_chars
    /\ ck_max_chars > 1
    /\ ck_overlap > 0

\* C18: for a text longer than max_chars and 0 <= overlap < max_chars the
\* chunks are the slices [start, end) of the text with
\* 0 <= start < end <= len; the first starts at 0, the last ends at len,
\* every position is in one of them, and each starts overlap characters
\* before the end of the one before.
C18_SlidingWindowSpans ==
    (ck_pc = "returned" /\ Len(ck_text) > ck_max_chars
                        /\ ck_overlap < ck_max_chars) =>
        /\ Len(ck_spans) = Len(ck_chunks)
        /\ Len(ck_spans) >= 1
        /\ \A i \in 1..Len(ck_spans) :
              /\ 0 <= ck_spans[i][1]
              /\ ck_spans[i][1] < ck_spans[i][2]
              /\ ck_spans[i][2] <= Len(ck_text)
              /\ ck_chunks[i] = SubSeq(ck_text, ck_spans[i][1] + 1, ck_spans[i][2])
        /\ ck_spans[1][1] = 0
        /\ ck_spans[Len(ck_spans)][2] = Len(ck_text)
        /\ \A at \in 0..(Len(ck_text) - 1) :
              \E i \in 1..Len(ck_spans) :
                  ck_spans[i][1] <= at /\ at < ck_spans[i][2]
        /\ \A i \in 2..Len(ck_spans) :
              ck_spans[i][1] = ck_spans[i - 1][2] - ck_overlap

\* The longest text under the widest window with the largest overlap
\* below it: three windows or more, the last one ending with the text.
C18_Witness ==
    /\ ck_pc = "returned"
    /\ Len(ck_text) = MaxTextLen
    /\ ck_max_chars = MaxWindow
    /\ ck_overlap = ck_max_chars - 1
    /\ Len(ck_chunks) >= 3

\* C19: every pass of the loop that does not end it moves start forward by
\* at least one character, whatever max_chars >= 1 and overlap >= 0 are.
C19_StartAdvances ==
    [][(ck_pc = "loop" /\ ck_pc' = "loop") => ck_start' > ck_start]_ck_vars

TypeOKChunker ==
    /\ ck_pc \in {"off", "called", "loop", "returned"}
    /\ ck_start \in 0..Len(ck_text)
    /\ Len(ck_chunks) <= Len(ck_text) + 1

\* ======================================================================
\* The deduplicator: dedupe_chunks (cerebrum-pi/cerebrum/retrieval/ranker.py).
\* ======================================================================
Whitespace == {" ", "\t", "\n"}

\* str.lstrip(), str.rstrip() and str.strip() without arguments.
RECURSIVE lstrip(_)
lstrip(s) ==
    IF s = "" THEN s
    ELSE IF Head(s) \in Whitespace THEN lstrip(Tail(s))
    ELSE s

RECURSIVE rstrip(_)
rstrip(s) ==
    IF s = "" THEN s
    ELSE IF SubSeq(s, Len(s), Len(s)) \in Whitespace
      THEN rstrip(SubSeq(s, 1, Len(s) - 1))
    ELSE s

strip(s) == rstrip(lstrip(s))

\* hash() of a str: equal strings have equal hashes, and nothing more is
\* promised.  Salt 0 is a hash without collisions among the chunks met here,
\* salt 1 one under which strings of the same length collide.
hash(salt, s) == IF salt = 0 THEN s ELSE ToString(Len(s))
Salts == {0, 1}

\* The chunks given to dedupe_chunks: with and without surrounding
\* whitespace, with inner whitespace, empty and blank.
ChunkPool == {"a", " a", "a\n", "b", "a b", "", " "}

RECURSIVE ListsOfLen(_, _)
ListsOfLen(pool, n) ==
    IF n = 0 THEN {<<>>}
    ELSE {Append(l, x) : l \in ListsOfLen(pool, n - 1), x \in pool}

\* Every list over pool of at most n elements.
Lists(pool, n) == UNION {ListsOfLen(pool, k) : k \in 0..n}

\* A repeated chunk makes the loop forget that it has seen it.
SeenAfterRepeatForgets(keys, chunk_hash) == keys \ {chunk_hash}

\* The hashes seen after a chunk whose hash is in seen already: lines 51-53
\* have no else branch.
SeenAfterRepeat(keys, chunk_hash) == keys

\* A new chunk goes in front of the ones kept so far.
KeptInFront(unique, chunk) == <<chunk>> \o unique

\* unique.append(chunk): line 53.
Kept(unique, chunk) == Append(unique, chunk)

\* The for loop of lines 47-53 from the given rest of the list on.
RECURSIVE DedupeLoop(_, _, _, _)
DedupeLoop(salt, rest, keys, unique) ==
    IF rest = <<>> THEN unique
    ELSE LET chunk == Head(rest)
             chunk_hash == hash(salt, strip(chunk))
         IN  IF chunk_hash \notin keys
               THEN DedupeLoop(salt, Tail(rest), keys \cup {chunk_hash},
                               Kept(unique, chunk))
               ELSE DedupeLoop(salt, Tail(rest),
                               SeenAfterRepeat(keys, chunk_hash), unique)

\* dedupe_chunks: lines 32-55.
dedupe_chunks(salt, chunks) == DedupeLoop(salt, chunks, {}, <<>>)

InitDedupe ==
    /\ dd_pc = "called"
    /\ dd_chunks \in Lists(ChunkPool, MaxChunkList)
    /\ dd_salt \in Salts
    /\ dd_once = <<>>
    /\ dd_twice = <<>>
    /\ Idle("dedupe")

\* dedupe_chunks(chunks).
DedupeOnce ==
    /\ dd_pc = "called"
    /\ dd_once' = dedupe_chunks(dd_salt, dd_chunks)
    /\ dd_pc' = "once"
    /\ UNCHANGED <<dd_chunks, dd_salt, dd_twice>>
    /\ Untouched("dedupe")

\* dedupe_chunks of what dedupe_chunks returned.
DedupeAgain ==
    /\ dd_pc = "once"
    /\ dd_twice' = dedupe_chunks(dd_salt, dd_once)
    /\ dd_pc' = "twice"
    /\ UNCHANGED <<dd_chunks, dd_salt, dd_once>>
    /\ Untouched("dedupe")

NextDedupe == DedupeOnce \/ DedupeAgain

SpecDedupe == InitDedupe /\ [][NextDedupe]_dd_vars

\* C20: dedupe_chunks of the result of dedupe_chunks is that result.
C20_DedupeIdempotent ==
    dd_pc = "twice" => dd_twice = dd_once

\* A list from which the first pass dropped a chunk that differs from the
\* one kept only by whitespace, and kept two.
C20_Witness ==
    /\ dd_pc = "twice"
    /\ dd_salt = 0
    /\ dd_chunks = <<" a", "b", "a\n">>
    /\ dd_once = <<" a", "b">>

\* ======================================================================
\* The prompt assembler: assemble_prompt
\* (cerebrum-pi/cerebrum/retrieval/assembler.py).
\* ======================================================================
\* s repeated n times: s * n.
RECURSIVE Repeat(_, _)
Repeat(s, n) ==
    IF n = 0 THEN ""
    ELSE IF n = 1 THEN s
    ELSE LET half == Repeat(s, n \div 2)
         IN  half \o half \o (IF n % 2 = 1 THEN s ELSE "")

\* sep.join(parts) for a list of strings.
RECURSIVE Join(_, _)
Join(sep, parts) ==
    IF parts = <<>> THEN ""
    ELSE IF Len(parts) = 1 THEN parts[1]
    ELSE LET mid == Len(parts) \div 2
         IN  Join(sep, SubSeq(parts, 1, mid)) \o sep
                \o Join(sep, SubSeq(parts, mid + 1, Len(parts)))

\* The loop goes on to the next chunk where line 41 breaks.
RECURSIVE ContextBlocksSkipping(_, _, _, _, _)
ContextBlocksSkipping(chunks, i, total_chars, budget, context_blocks) ==
    IF i > Len(chunks) THEN context_blocks
    ELSE IF total_chars + Len(chunks[i]) > budget
      THEN ContextBlocksSkipping(chunks, i + 1, total_chars, budget, context_blocks)
    ELSE ContextBlocksSkipping(chunks, i + 1, total_chars + Len(chunks[i]), budget,
             Append(context_blocks,
                    "CONTEXT " \o ToString(i) \o ":\n" \o chunks[i]))

\* The for loop of lines 39-44 from chunk i (1-based) on: the blocks built.
RECURSIVE ContextBlocks(_, _, _, _, _)
ContextBlocks(chunks, i, total_chars, budget, context_blocks) ==
    IF i > Len(chunks) THEN context_blocks
    ELSE IF total_chars + Len(chunks[i]) > budget THEN context_blocks
    ELSE ContextBlocks(chunks, i + 1, total_chars + Len(chunks[i]), budget,
             Append(context_blocks,
                    "CONTEXT " \o ToString(i) \o ":\n" \o chunks[i]))

\* The f-string without the user's text.
TemplateContextOnly(context_str, user_prompt) ==
    "SYSTEM:\n"
    \o "You are an expert code assistant. Use the context below only if relevant.\n"
    \o "\n" \o context_str \o "\n"

\* The f-string of lines 51-58.
Template(context_str, user_prompt) ==
    "SYSTEM:\n"
    \o "You are an expert code assistant. Use the context below only if relevant.\n"
    \o "\n" \o context_str \o "\n"
    \o "\n"
    \o "USER:\n"
    \o user_prompt \o "\n"

\* assemble_prompt: lines 16-58.
assemble_prompt(user_prompt, chunks, budget) ==
    IF chunks = <<>> THEN user_prompt
    ELSE LET context_blocks ==
                 ContextBlocks(chunks, 1, Len(user_prompt), budget, <<>>)
         IN  IF context_blocks = <<>> THEN user_prompt
             ELSE Template(Join("\n\n", context_blocks), user_prompt)

\* The budgets tried: the small ones and the default.
Budgets == 0..MaxBudget \cup {max_context_chars}

InitAssembler ==
    /\ am_pc = "called"
    /\ am_user_prompt \in {Repeat("u", n) : n \in 0..MaxPromptLen}
    /\ am_chunks \in Lists({"", "c", "cc"}, MaxContext)
    /\ am_budget \in Budgets
    /\ am_result = ""
    /\ Idle("assembler")

Assemble ==
    /\ am_pc = "called"
    /\ am_result' = assemble_prompt(am_user_prompt, am_chunks, am_budget)
    /\ am_pc' = "returned"
    /\ UNCHANGED <<am_user_prompt, am_chunks, am_budget>>
    /\ Untouched("assembler")

NextAssembler == Assemble

SpecAssembler == InitAssembler /\ [][NextAssembler]_am_vars

\* C16: what assemble_prompt returns is at most max_context_chars
\* characters long.
C16_WithinBudget ==
    am_pc = "returned" => Len(am_result) <= am_budget

\* ======================================================================
\* The relevance ranker (ranker.py), the instruction parser
\* (instruction_parser.py) and the compression pipeline as the routes run
\* it: code_completion and stream_completion (api/routes/inference.py,
\* the same lines twice) and apply_smart_chunking
\* (api/routes/_chunking_helper.py).
\* ======================================================================
CharAt(s, i) == SubSeq(s, i, i)

UpperCase == "ABCDEFGHIJKLMNOPQRSTUVWXYZ"
LowerCase == "abcdefghijklmnopqrstuvwxyz"

\* str.lower() of at most one character.
LowerChar(c) ==
    IF \E i \in 1..Len(UpperCase) : CharAt(UpperCase, i) = c
      THEN CharAt(LowerCase, CHOOSE i \in 1..Len(UpperCase) : CharAt(UpperCase, i) = c)
      ELSE c

\* str.lower().
RECURSIVE lower(_)
lower(s) ==
    IF Len(s) <= 1 THEN LowerChar(s)
    ELSE LET mid == Len(s) \div 2
         IN  lower(SubSeq(s, 1, mid)) \o lower(SubSeq(s, mid + 1, Len(s)))

\* The last position of the word that has position i.
RECURSIVE WordEnd(_, _)
WordEnd(s, i) ==
    IF i < Len(s) /\ CharAt(s, i + 1) \notin Whitespace THEN WordEnd(s, i + 1)
    ELSE i

\* set(s.split()): the words between runs of whitespace.
SplitSet(s) ==
    {SubSeq(s, i, WordEnd(s, i)) :
        i \in {j \in 1..Len(s) :
                  /\ CharAt(s, j) \notin Whitespace
                  /\ (j = 1 \/ CharAt(s, j - 1) \in Whitespace)}}

\* score_chunk: ranker.py lines 16-29.
score_chunk(chunk, query) ==
    Cardinality(SplitSet(lower(query)) \cap SplitSet(lower(chunk)))

\* A sort that puts the later of two chunks with equal keys first.
RankedTiesReversed(chunks, score) ==
    [r \in 1..Len(chunks) |->
        chunks[CHOOSE i \in 1..Len(chunks) :
                  Cardinality({j \in 1..Len(chunks) :
                                  \/ score[j] > score[i]
                                  \/ score[j] = score[i] /\ j > i}) = r - 1]]

\* The list in the order of sorted(chunks, key=..., reverse=True) for the
\* keys score (score[i] is the key of chunks[i]): a stable sort, equal keys
\* keep the order of the list.
Ranked(chunks, score) ==
    [r \in 1..Len(chunks) |->
        chunks[CHOOSE i \in 1..Len(chunks) :
                  Cardinality({j \in 1..Len(chunks) :
                                  \/ score[j] > score[i]
                                  \/ score[j] = score[i] /\ j < i}) = r - 1]]

\* sorted(chunks, key=lambda c: score_chunk(c, query), reverse=True).
SortedByScore(chunks, query) ==
    CHOOSE ranked \in
        {Ranked(chunks, score) :
            score \in {[i \in 1..Len(chunks) |-> score_chunk(chunks[i], query)]}} :
        TRUE

\* One element more than the slice asks for.
FirstOneMore(list, k) == SubSeq(list, 1, Min(k + 1, Len(list)))

\* list[:k]: the first k elements, all of them if there are fewer, and for a
\* negative k all but the last -k.
First(list, k) ==
    IF k >= 0 THEN SubSeq(list, 1, Min(k, Len(list)))
    ELSE SubSeq(list, 1, Max(Len(list) + k, 0))

\* select_top_chunks: ranker.py lines 58-84.
select_top_chunks(chunks, query, k) ==
    IF Len(chunks) <= k THEN chunks
    ELSE First(SortedByScore(chunks, query), k)

\* line.startswith(m).
StartsWith(line, m) == Len(line) >= Len(m) /\ SubSeq(line, 1, Len(m)) = m

\* The markers of lines 33-37.
Markers == {"# INSTRUCTION:", "INSTRUCTION:", "# REFACTOR:", "REFACTOR:",
            "# TODO:", "TODO:"}

\* The first position of the line that ends just before position p.
RECURSIVE LineStart(_, _)
LineStart(s, p) ==
    IF p = 1 \/ CharAt(s, p - 1) = "\n" THEN p ELSE LineStart(s, p - 1)

\* The body of the loop runs for the last line only.
ScanLinesLastOnly(prompt, s, n, i, last) ==
    IF i <= Max(n - MAX_SCAN_LINES, -1) THEN <<prompt, "">>
    ELSE LET first == LineStart(s, last + 1)
             line == strip(SubSeq(s, first, last))
         IN  IF \E m \in Markers : StartsWith(line, m)
               THEN <<strip(IF first = 1 THEN "" ELSE SubSeq(s, 1, first - 2)),
                      strip(SubSeq(s, first, Len(s)))>>
               ELSE <<prompt, "">>

\* The for loop of lines 31-40 in a text s of n lines that is stripped and
\* broken by "\n" only: line i (0-based) ends at position last.  lines[:i]
\* joined by "\n" is s up to the line break before line i, lines[i:] joined
\* is s from line i on.
RECURSIVE ScanLines(_, _, _, _, _)
ScanLines(prompt, s, n, i, last) ==
    IF i <= Max(n - MAX_SCAN_LINES, -1) THEN <<prompt, "">>
    ELSE LET first == LineStart(s, last + 1)
             line == strip(SubSeq(s, first, last))
         IN  IF \E m \in Markers : StartsWith(line, m)
               THEN <<strip(IF first = 1 THEN "" ELSE SubSeq(s, 1, first - 2)),
                      strip(SubSeq(s, first, Len(s)))>>
               ELSE ScanLines(prompt, s, n, i - 1, first - 2)

\* len(s.splitlines()) for such a text.
LineCount(s) ==
    IF s = "" THEN 0
    ELSE Cardinality({i \in 1..Len(s) : CharAt(s, i) = "\n"}) + 1

\* extract_instruction: instruction_parser.py lines 15-42.  The pair
\* (code, instruction).
extract_instruction(prompt) ==
    LET s == strip(prompt)
        n == LineCount(s)
    IN  ScanLines(prompt, s, n, n - 1, Len(s))

\* The characters of a str, which is what iterating over it yields.
Chars(s) == [i \in 1..Len(s) |-> CharAt(s, i)]

\* assemble_refactor_prompt: instruction_parser.py lines 44-73, for the
\* iterable code_chunks given as the sequence of its items.  A TLA+ string
\* cannot hold the backquote: an apostrophe stands for each of the three
\* that open a code fence.
assemble_refactor_prompt(code_chunks, instruction) ==
    IF instruction = "" THEN Join("\n\n", code_chunks)
    ELSE instruction \o "\n"
         \o "\n"
         \o "Here is the code to refactor:\n"
         \o "'''python\n"
         \o Join("\n\n", code_chunks) \o "\n"
         \o "\n"
         \o "Refactored code:\n"
         \o "'''python\n"

\* code[-n:].
LastChars(code, n) == SubSeq(code, Max(Len(code) - n, 0) + 1, Len(code))

\* The comparison of line 122 the other way round.
InsufficientReductionReversed(assembled_prompt, original_prompt) ==
    10 * Len(assembled_prompt) <= 9 * Len(original_prompt)

\* `len(assembled_prompt) >= len(original_prompt) * 0.9`: inference.py line
\* 122, _chunking_helper.py line 52.  The product is the float nearest to
\* nine tenths of the length, and comparing an int with it comes out as
\* comparing ten times the one with nine times the other.
InsufficientReduction(assembled_prompt, original_prompt) ==
    10 * Len(assembled_prompt) >= 9 * Len(original_prompt)

\* A prompt of exactly the limit is refused as well.
TooLargeAtLimit(prompt) == Len(prompt) >= prompt_limit

\* `if len(request.prompt) > 16_000`: inference.py lines 62 and 209.
TooLarge(prompt) == Len(prompt) > prompt_limit

\* The pipeline: inference.py lines 84-145 and 227-288 (inline), and
\* _chunking_helper.py lines 24-75 (not inline).  The inline copies join the
\* selected chunks themselves and give assemble_refactor_prompt a str; the
\* helper gives it the list.  hash() is taken without collisions.
Pipeline(original_prompt, inline) ==
    LET parts == extract_instruction(original_prompt)
        code == parts[1]
        instruction == parts[2]
        Outcome(branch, assembled, prompt) ==
            [branch |-> branch, code |-> code, instruction |-> instruction,
             assembled |-> assembled, prompt |-> prompt]
    IN  IF should_chunk(code)
          THEN LET chunks == chunk_text(code, chunk_max_chars, chunk_overlap)
                   unique_chunks == dedupe_chunks(0, chunks)
                   k == Min(top_k, Len(unique_chunks) - 1)
               IN  IF k <= 0 THEN Outcome("few_chunks", "", original_prompt)
                   ELSE LET query == IF instruction # "" THEN instruction
                                     ELSE LastChars(code, query_tail_chars)
                            selected_chunks ==
                                select_top_chunks(unique_chunks, query, k)
                            assembled_prompt ==
                                IF instruction # ""
                                  THEN IF inline
                                         THEN assemble_refactor_prompt(
                                                  Chars(Join("\n\n", selected_chunks)),
                                                  instruction)
                                         ELSE assemble_refactor_prompt(
                                                  selected_chunks, instruction)
                                  ELSE assemble_prompt(code, selected_chunks,
                                                       max_context_chars)
                        IN  IF InsufficientReduction(assembled_prompt,
                                                     original_prompt)
                              THEN Outcome("not_reduced", assembled_prompt,
                                           original_prompt)
                              ELSE Outcome("chunked", assembled_prompt,
                                           assembled_prompt)
        ELSE IF instruction # ""
          THEN LET result ==
                       IF inline
                         THEN assemble_refactor_prompt(Chars(code), instruction)
                         ELSE assemble_refactor_prompt(<<code>>, instruction)
               IN  Outcome("instruction_only", result, result)
        ELSE Outcome("untouched", "", original_prompt)

\* ---- the prompts that come in
\* Line i of a body whose lines all differ.
NumberedLine(i) ==
    "value_" \o ToString(i) \o " = compute(" \o ToString(i) \o ")\n"

\* Lines from..to of it.
RECURSIVE NumberedLines(_, _)
NumberedLines(from, to) ==
    IF from > to THEN ""
    ELSE IF from = to THEN NumberedLine(from)
    ELSE LET mid == (from + to) \div 2
         IN  NumberedLines(from, mid) \o NumberedLines(mid + 1, to)

\* A body of n lines: lines that all differ, or one line over and over.
Body(kind, n) ==
    IF kind = "numbered" THEN NumberedLines(1, n)
    ELSE Repeat("x = x + 1\n", n)

BodyKinds == {"numbered", "boilerplate"}

\* What follows the body: nothing, an instruction, an instruction with
\* whitespace after it.
Tails == {"",
          "# TODO: add type hints to value_7 = compute(7)",
          "REFACTOR: simplify\n\n"}

\* Prompts of exactly prompt_limit characters and of one more.
PromptsAtLimit ==
    LET line == "x = x + 1\n"
    IN  {Repeat(line, prompt_limit \div Len(line)) \o extra : extra \in {"", "y"}}

\* Prompts without an instruction whose last chunk is short and is the one
\* that shares most words with the end of the code.
MixedPrompts ==
    {Repeat("x = x + 1\n", 170) \o NumberedLines(1, n) : n \in {16, 30}}

InboundPrompts ==
    {Body(kind, BlockLines * blocks) \o tail :
        kind \in BodyKinds, blocks \in 0..MaxBlocks, tail \in Tails}
    \cup PromptsAtLimit
    \cup MixedPrompts

InitPipeline ==
    /\ pl_pc = "inbound"
    /\ pl_prompt \in InboundPrompts
    /\ pl_route = "none"
    /\ pl_code = ""
    /\ pl_instruction = ""
    /\ pl_branch = "none"
    /\ pl_assembled = ""
    /\ pl_dispatched = ""
    /\ Idle("pipeline")

\* The result of the pipeline is recorded and handed on.
HandOn(route, result) ==
    /\ pl_route' = route
    /\ pl_code' = result.code
    /\ pl_instruction' = result.instruction
    /\ pl_branch' = result.branch
    /\ pl_assembled' = result.assembled
    /\ pl_dispatched' = result.prompt
    /\ pl_pc' = "dispatched"

\* `raise HTTPException(413, ...)`: inference.py lines 63 and 210.
Refuse(route) ==
    /\ pl_pc' = "refused"
    /\ pl_route' = route
    /\ UNCHANGED <<pl_code, pl_instruction, pl_branch, pl_assembled,
                   pl_dispatched>>

\* code_completion up to the first suspension: inference.py lines 57-149.
\* The call of vps.inference in line 149 runs the remote client, which here
\* is as constructed, up to its POST.
code_completion ==
    /\ pl_pc = "inbound"
    /\ IF TooLarge(pl_prompt)
         THEN /\ Refuse("code_completion")
              /\ UNCHANGED vars
         ELSE /\ HandOn("code_completion", Pipeline(pl_prompt, TRUE))
              /\ BeginInference(1)
    /\ UNCHANGED pl_prompt
    /\ UntouchedBut({"pipeline", "client"})

\* stream_completion: inference.py lines 199-338.  The same pipeline; the
\* generator then asks the client for inference_stream, which VPSClient
\* does not have, and reports the AttributeError as an error event (lines
\* 327-329): the client is not used.
stream_completion ==
    /\ pl_pc = "inbound"
    /\ IF TooLarge(pl_prompt)
         THEN Refuse("stream_completion")
         ELSE HandOn("stream_completion", Pipeline(pl_prompt, TRUE))
    /\ UNCHANGED pl_prompt
    /\ Untouched("pipeline")

\* apply_smart_chunking: _chunking_helper.py lines 14-75; the prompt of the
\* pair it returns.
apply_smart_chunking ==
    /\ pl_pc = "inbound"
    /\ HandOn("apply_smart_chunking", Pipeline(pl_prompt, FALSE))
    /\ UNCHANGED pl_prompt
    /\ Untouched("pipeline")

NextPipeline == code_completion \/ stream_completion \/ apply_smart_chunking

SpecPipeline == InitPipeline /\ [][NextPipeline]_pl_vars

RankPool == {"a", "A b", "b c", "x", "b"}
RankQueries == {"a B", "b", "", "c  a b"}

\* Every k from a negative one to more than any list has.
RankSizes == -1..MaxChunkList

InitRanker ==
    /\ rk_pc = "called"
    /\ rk_chunks \in Lists(RankPool, MaxChunkList)
    /\ rk_query \in RankQueries
    /\ rk_k \in RankSizes
    /\ rk_result = <<>>
    /\ Idle("ranker")

\* select_top_chunks(chunks, query, k).
Select ==
    /\ rk_pc = "called"
    /\ rk_result' = select_top_chunks(rk_chunks, rk_query, rk_k)
    /\ rk_pc' = "returned"
    /\ UNCHANGED <<rk_chunks, rk_query, rk_k>>
    /\ Untouched("ranker")

NextRanker == Select

SpecRanker == InitRanker /\ [][NextRanker]_rk_vars

\* C21: for k >= 0 select_top_chunks returns at most k items, at most as
\* many as it was given, and each of them is one of the chunks given.
C21_AtMostKOfInput ==
    rk_pc = "returned" /\ rk_k >= 0 =>
        /\ Len(rk_result) <= rk_k
        /\ Len(rk_result) <= Len(rk_chunks)
        /\ \A r \in 1..Len(rk_result) :
              \E i \in 1..Len(rk_chunks) : rk_result[r] = rk_chunks[i]

\* More chunks than k: two of three were returned.
C21_Witness ==
    /\ rk_pc = "returned"
    /\ rk_k = 2
    /\ Len(rk_chunks) = 3
    /\ Len(rk_result) = 2

\* Chunk i goes before chunk j: a higher score, or the same score and an
\* earlier place in the list.
Precedes(score, i, j) ==
    \/ score[i] > score[j]
    \/ score[i] = score[j] /\ i < j

\* result is the first k of chunks by Precedes, in that order.
IsTopK(chunks, score, k, result) ==
    /\ Len(result) = k
    /\ \E pick \in [1..k -> 1..Len(chunks)] :
          /\ \A r \in 1..k : result[r] = chunks[pick[r]]
          /\ \A r, s \in 1..k : r < s => Precedes(score, pick[r], pick[s])
          /\ \A j \in 1..Len(chunks) :
                (\A r \in 1..k : pick[r] # j) =>
                    \A r \in 1..k : Precedes(score, pick[r], j)

\* C29: select_top_chunks returns its input when that has at most k chunks,
\* and otherwise the k chunks of highest score in descending order of
\* score, equal scores in the order of the input, the earlier one winning
\* at the cut-off.
C29_TopKStable ==
    rk_pc = "returned" /\ rk_k >= 0 =>
        IF Len(rk_chunks) <= rk_k THEN rk_result = rk_chunks
        ELSE \A score \in {[i \in 1..Len(rk_chunks) |->
                               score_chunk(rk_chunks[i], rk_query)]} :
                 IsTopK(rk_chunks, score, rk_k, rk_result)

\* Two chunks tie behind none and ahead of the one without a shared word,
\* which comes first in the list and is the one left out.
C29_Witness ==
    /\ rk_pc = "returned"
    /\ rk_chunks = <<"x", "b", "b c">>
    /\ rk_query = "b"
    /\ rk_k = 2
    /\ rk_result = <<"b", "b c">>

\* ======================================================================
\* The deduplicator again: what dedupe_chunks keeps.
\* ======================================================================
\* The places of chunks whose content, surrounding whitespace removed as
\* line 49 removes it, has not occurred at an earlier place.
FirstOccurrences(chunks) ==
    {i \in 1..Len(chunks) :
        \A j \in 1..(i - 1) : strip(chunks[j]) # strip(chunks[i])}

\* The chunks at the given places, in the order of the list.
Subsequence(chunks, places) ==
    [r \in 1..Cardinality(places) |->
        chunks[CHOOSE i \in places :
                  Cardinality({j \in places : j < i}) = r - 1]]

\* C28: under a hash without collisions the result of dedupe_chunks is the
\* subsequence of its input made of the first chunk of each distinct
\* normalized content; no two chunks of the result have the same
\* normalized content, and the normalized content of every input chunk is
\* that of some chunk of the result.
C28_KeepsFirstOccurrences ==
    dd_pc \in {"once", "twice"} /\ dd_salt = 0 =>
        /\ dd_once = Subsequence(dd_chunks, FirstOccurrences(dd_chunks))
        /\ \A r, s \in 1..Len(dd_once) :
              strip(dd_once[r]) = strip(dd_once[s]) => r = s
        /\ \A i \in 1..Len(dd_chunks) :
              \E r \in 1..Len(dd_once) : strip(dd_once[r]) = strip(dd_chunks[i])

\* The third chunk repeats the content of the second, which is the one kept.
C28_Witness ==
    /\ dd_pc = "once"
    /\ dd_salt = 0
    /\ dd_chunks = <<"b", "a\n", "a">>
    /\ dd_once = <<"b", "a\n">>

\* ======================================================================
\* The pipeline again: short prompts and the size guard.
\* ======================================================================
\* C22: a prompt of at most 1500 characters in whose scanned lines
\* extract_instruction finds no marker is not chunked, and is handed on as
\* it came in.
C22_ShortPromptUntouched ==
    (/\ pl_pc = "dispatched"
     /\ Len(pl_prompt) <= chunk_threshold
     /\ pl_instruction = "") =>
        /\ pl_branch = "untouched"
        /\ pl_dispatched = pl_prompt

\* A prompt of exactly 1500 characters went through code_completion to the
\* remote client as it came in.
C22_Witness ==
    /\ pl_pc = "dispatched"
    /\ pl_route = "code_completion"
    /\ Len(pl_prompt) = chunk_threshold
    /\ pl_instruction = ""
    /\ pl_dispatched = pl_prompt
    /\ requests_sent = 1

\* The routes of /v1/complete and /v1/complete/stream.
CompletionRoutes == {"code_completion", "stream_completion"}

\* C23: the routes refuse a prompt exactly when it is longer than 16,000
\* characters, and a refused prompt has not been split or chunked, and has
\* left requests_sent, the age of the last failure and the semaphore of
\* the remote client as they were.
C23_SizeGuard ==
    /\ pl_pc = "refused" =>
          /\ Len(pl_prompt) > prompt_limit
          /\ pl_code = "" /\ pl_instruction = ""
          /\ pl_branch = "none" /\ pl_dispatched = ""
          /\ requests_sent = 0
          /\ failure_age = cooldown_seconds
          /\ sem_value = semaphore_slots /\ sem_waiters = <<>>
          /\ \A c \in Calls : pc[c] = "idle" /\ posts[c] = 0
    /\ pl_pc = "dispatched" /\ pl_route \in CompletionRoutes =>
          Len(pl_prompt) <= prompt_limit

\* A prompt of 16,001 characters was refused by code_completion.
C23_Witness ==
    /\ pl_pc = "refused"
    /\ pl_route = "code_completion"
    /\ Len(pl_prompt) = prompt_limit + 1
    /\ requests_sent = 0

\* ======================================================================
\* The instruction parser on its own: extract_instruction
\* (cerebrum-pi/cerebrum/retrieval/instruction_parser.py).
\* ======================================================================
\* The lines before the marker line, the marker line, and the lines after.
LinesBefore == {"", "a\n", "TODO: old\na\n"}
MarkerLines == {m \o " do it\n" : m \in Markers}
               \cup {"  # TODO: do it \n", "Task: do it\n", "plain\n"}
LinesAfter == {Repeat("b\n", n) : n \in 0..MaxAfter}

\* What may follow the last line.
PromptEndings == {"", "\n"}

ParserPrompts ==
    {before \o marker \o after \o ending :
        before \in LinesBefore, marker \in MarkerLines, after \in LinesAfter,
        ending \in PromptEndings}

InitParser ==
    /\ ip_pc = "called"
    /\ ip_prompt \in ParserPrompts
    /\ ip_code = ""
    /\ ip_instruction = ""
    /\ Idle("parser")

\* extract_instruction(prompt).
Extract ==
    /\ ip_pc = "called"
    /\ LET parts == extract_instruction(ip_prompt)
       IN  /\ ip_code' = parts[1]
           /\ ip_instruction' = parts[2]
    /\ ip_pc' = "returned"
    /\ UNCHANGED ip_prompt
    /\ Untouched("parser")

NextParser == Extract

SpecParser == InitParser /\ [][NextParser]_ip_vars

\* The k-th smallest element of a set of numbers.
Nth(set, k) == CHOOSE x \in set : Cardinality({y \in set : y < x}) = k - 1

\* s.splitlines() for a text s that is stripped and broken by "\n" only.
SplitLines(s) ==
    IF s = "" THEN <<>>
    ELSE LET breaks == {p \in 1..Len(s) : CharAt(s, p) = "\n"}
         IN  [k \in 1..(Cardinality(breaks) + 1) |->
                 SubSeq(s, Nth(breaks \cup {0}, k) + 1,
                           Nth(breaks \cup {Len(s) + 1}, k) - 1)]

\* How far from the end the marker line nearest to the end is: 1 for the
\* last line, 0 if no line begins with a marker.
MarkerDistance(lines) ==
    LET marked == {i \in 1..Len(lines) :
                      \E m \in Markers : StartsWith(strip(lines[i]), m)}
    IN  IF marked = {} THEN 0
        ELSE Len(lines) + 1 - (CHOOSE i \in marked : \A j \in marked : j <= i)

\* C30 as stated: the marker line nearest to the end is split on when it is
\* among the last 12 lines of the stripped prompt, the 12th from the end
\* included, and no marker is honoured otherwise.
C30_HonouredWithinTwelve ==
    ip_pc = "returned" =>
        \A lines \in {SplitLines(strip(ip_prompt))} :
            \A distance \in {MarkerDistance(lines)} :
                IF distance \in 1..MAX_SCAN_LINES
                  THEN /\ ip_code =
                            strip(Join("\n", SubSeq(lines, 1, Len(lines) - distance)))
                       /\ ip_instruction =
                            strip(Join("\n", SubSeq(lines, Len(lines) - distance + 1,
                                                    Len(lines))))
                  ELSE /\ ip_code = ip_prompt
                       /\ ip_instruction = ""

\* ======================================================================
\* The model cache of the back node: class VPSModelEngine and the routes
\* that use it (cerebrum-backend/vps_server/main.py).  The methods are
\* plain functions and the routes do not await between their calls, so
\* each operation is one step.  Time passes in ticks of MinutesPerTick
\* minutes; the age of an entry is how long ago its load_times was set,
\* and ages past AgeCap ticks are not told apart.
\* ======================================================================
MinutesPerTick == 30
cleanup_max_age_minutes == 30     \* cleanup_old_models(max_age_minutes=30)
default_max_age_minutes == 60     \* max_age_minutes: int = 60

\* The keys of model_paths: lines 169-175.
model_paths == {"qwen_7b", "codellama_7b", "codellama_13b", "deepseek_6b",
                "wizardcoder_15b"}

\* The thresholds cleanup_old_models is called with.
SweepAges == {cleanup_max_age_minutes, default_max_age_minutes}

\* No id is ever found in the cache.
CachedNever(id) == FALSE

\* `model_name in self.models`: lines 156 and 211.
Cached(id) == mc_models[id] # 0

\* An entry exactly as old as the threshold counts as too old.
TooOldAtThreshold(age, max_age_minutes) ==
    age * MinutesPerTick >= max_age_minutes

\* `age > max_age_minutes` for age = (now - last_used).total_seconds() / 60:
\* lines 223-224.
TooOld(age, max_age_minutes) == age * MinutesPerTick > max_age_minutes

\* The fields of the engine, with the counts of Llama(...) calls.
EngineState ==
    [models |-> mc_models, load_times |-> mc_load_times,
     inference_count |-> mc_inference_count, handles |-> mc_handles,
     invoked |-> mc_invoked, made |-> mc_made,
     engine_calls |-> mc_engine_calls]

\* What a method leaves behind and what it gives its caller.
MethodResult(state, error, handle, engine) ==
    [state |-> state, error |-> error, returned |-> handle,
     engine |-> engine]

\* What the file system and llama.cpp do in a call of load_model: the
\* file is not there, Llama(...) raises, or Llama(...) returns a model.
LoadCases == {"no_file", "load_fails", "loads"}

\* What else happens to a request for inference: it is not let in, or the
\* call of the model raises, or returns.
InferenceCases == {"forbidden", "no_file", "load_fails", "run_fails", "runs"}

\* os.path.exists(model_path): line 183.
FileExists(case) == case # "no_file"

\* Llama(...) returns: lines 187-193.
EngineLoads(case) == case \notin {"no_file", "load_fails"}

\* load_model: lines 152-207.
load_model(id, case) ==
    IF Cached(id)
      THEN MethodResult([EngineState EXCEPT !.load_times[id] = 0],
                   "none", mc_models[id], FALSE)
    ELSE IF id \notin model_paths
      THEN MethodResult(EngineState, "ValueError", 0, FALSE)
    ELSE IF ~FileExists(case)
      THEN MethodResult(EngineState, "FileNotFoundError", 0, FALSE)
    ELSE IF ~EngineLoads(case)
      THEN MethodResult([EngineState EXCEPT !.invoked[id] = @ + 1,
                                       !.engine_calls = @ + 1],
                   "LoadError", 0, TRUE)
    ELSE MethodResult([EngineState EXCEPT !.models[id] = mc_handles[id] + 1,
                                     !.handles[id] = @ + 1,
                                     !.load_times[id] = 0,
                                     !.inference_count[id] = 0,
                                     !.invoked[id] = @ + 1,
                                     !.made[id] = @ + 1,
                                     !.engine_calls = @ + 1],
                 "none", mc_handles[id] + 1, TRUE)

\* unload_model for every id of a set: lines 209-215.  The entries of
\* load_times and inference_count stay.
Unloaded(ids) ==
    [EngineState EXCEPT
        !.models = [id \in ModelIds |-> IF id \in ids THEN 0 ELSE mc_models[id]],
        !.invoked = [id \in ModelIds |->
                        IF id \in ids /\ Cached(id) THEN 0 ELSE mc_invoked[id]],
        !.made = [id \in ModelIds |->
                     IF id \in ids /\ Cached(id) THEN 0 ELSE mc_made[id]]]

\* to_remove of cleanup_old_models: lines 220-225.
ToRemove(max_age_minutes) ==
    {id \in ModelIds :
        /\ mc_load_times[id] # -1
        /\ TooOld(mc_load_times[id], max_age_minutes)}

\* cleanup_old_models: lines 217-229.
cleanup_old_models(max_age_minutes) == Unloaded(ToRemove(max_age_minutes))

\* The ids in the cache: self.models.keys().
CachedIn(models) == {id \in ModelIds : models[id] # 0}

Install(state) ==
    /\ mc_models' = state.models
    /\ mc_load_times' = state.load_times
    /\ mc_inference_count' = state.inference_count
    /\ mc_handles' = state.handles
    /\ mc_invoked' = state.invoked
    /\ mc_made' = state.made
    /\ mc_engine_calls' = state.engine_calls

\* The call does not take Llama(...) past the number of calls explored.
WithinEngineCalls(id, case) ==
    \/ mc_engine_calls < MaxEngineCalls
    \/ Cached(id)
    \/ id \notin model_paths
    \/ ~FileExists(case)

\* The file of the id was looked for: the id is not cached and is a key
\* of model_paths.
FileChecked(id) == ~Cached(id) /\ id \in model_paths

Asked(op, id, case) ==
    [NoOperation EXCEPT !.op = op, !.id = id, !.cached_before = mc_models[id],
                        !.file = IF ~FileChecked(id) THEN "unchecked"
                                 ELSE IF FileExists(case) THEN "present"
                                 ELSE "absent"]

InitCache ==
    /\ EngineConstructed
    /\ Idle("cache")

\* A minute hand moves: every entry of load_times is a tick older.
Age ==
    /\ mc_load_times' =
          [id \in ModelIds |->
              IF mc_load_times[id] = -1 THEN -1
              ELSE Min(mc_load_times[id] + 1, AgeCap)]
    /\ mc_last' = NoOperation
    /\ UNCHANGED <<mc_models, mc_inference_count, mc_handles, mc_invoked,
                   mc_made, mc_engine_calls>>
    /\ Untouched("cache")

\* vps_engine.load_model(model) as the generator of inference_stream calls
\* it: line 406.
Load(id, case) ==
    /\ WithinEngineCalls(id, case)
    /\ LET r == load_model(id, case)
       IN  /\ Install(r.state)
           /\ mc_last' = [Asked("load_model", id, case) EXCEPT
                              !.engine = r.engine, !.error = r.error,
                              !.returned = r.returned]
    /\ Untouched("cache")

\* POST /v1/inference: lines 305-380.  A request is let in when its key
\* and the address of its client pass.
inference(id, case) ==
    /\ WithinEngineCalls(id, case)
    /\ mc_inference_count[id] < MaxInferences
    /\ IF case = "forbidden"
         THEN /\ Install(EngineState)
              /\ mc_last' = [NoOperation EXCEPT
                                 !.op = "inference", !.id = id,
                                 !.cached_before = mc_models[id],
                                 !.error = "Forbidden", !.status = 403]
         ELSE LET r == load_model(id, case)
                  answered(state, error, status) ==
                      /\ Install(state)
                      /\ mc_last' = [Asked("inference", id, case) EXCEPT
                                         !.engine = r.engine, !.error = error,
                                         !.returned = r.returned,
                                         !.status = status]
              IN  IF r.error = "FileNotFoundError"
                    THEN answered(r.state, r.error, 404)
                  ELSE IF r.error # "none"
                    THEN answered(r.state, r.error, 500)
                  ELSE IF case = "run_fails"
                    THEN answered(r.state, "InferenceError", 500)
                  ELSE answered([r.state EXCEPT !.inference_count[id] = @ + 1],
                                "none", 200)
    /\ Untouched("cache")

\* POST /v1/unload/{model_name}: lines 481-496.
unload_model(id, key_ok) ==
    /\ IF ~key_ok
         THEN /\ Install(EngineState)
              /\ mc_last' = [NoOperation EXCEPT
                                 !.op = "unload_model", !.id = id,
                                 !.cached_before = mc_models[id],
                                 !.error = "Forbidden", !.status = 403]
         ELSE /\ Install(Unloaded({id}))
              /\ mc_last' = [NoOperation EXCEPT
                                 !.op = "unload_model", !.id = id,
                                 !.cached_before = mc_models[id],
                                 !.status = IF Cached(id) THEN 200 ELSE 404]
    /\ Untouched("cache")

\* vps_engine.cleanup_old_models(max_age_minutes), which returns nothing.
Sweep(max_age_minutes) ==
    /\ Install(cleanup_old_models(max_age_minutes))
    /\ mc_last' = [NoOperation EXCEPT !.op = "cleanup_old_models",
                                      !.before = CachedIn(mc_models),
                                      !.max_age = max_age_minutes]
    /\ Untouched("cache")

\* POST /v1/cleanup: lines 499-514.
cleanup_cache(key_ok) ==
    /\ IF ~key_ok
         THEN /\ Install(EngineState)
              /\ mc_last' = [NoOperation EXCEPT !.op = "cleanup_cache",
                                                !.error = "Forbidden",
                                                !.status = 403]
         ELSE LET state == cleanup_old_models(cleanup_max_age_minutes)
                  before == Cardinality(CachedIn(mc_models))
                  after == Cardinality(CachedIn(state.models))
              IN  /\ Install(state)
                  /\ mc_last' = [NoOperation EXCEPT
                                     !.op = "cleanup_cache",
                                     !.before = CachedIn(mc_models),
                                     !.max_age = cleanup_max_age_minutes,
                                     !.removed = before - after,
                                     !.status = 200]
    /\ Untouched("cache")

NextCache ==
    \/ Age
    \/ \E id \in ModelIds, case \in LoadCases : Load(id, case)
    \/ \E id \in ModelIds, case \in InferenceCases : inference(id, case)
    \/ \E id \in ModelIds, key_ok \in BOOLEAN : unload_model(id, key_ok)
    \/ \E max_age_minutes \in SweepAges : Sweep(max_age_minutes)
    \/ \E key_ok \in BOOLEAN : cleanup_cache(key_ok)

SpecCache == InitCache /\ [][NextCache]_mc_vars

\* The latest operation was a load_model that got as far as the cache.
Loaded == mc_last.op \in {"load_model", "inference"} /\ mc_last.error # "Forbidden"

\* A hit returns the handle that was cached, leaves it cached, sets the
\* entry of load_times to now and does not call Llama(...).
HitReturnsCached ==
    Loaded /\ mc_last.cached_before # 0 =>
        /\ mc_last.error \in {"none", "InferenceError"}
        /\ mc_last.returned = mc_last.cached_before
        /\ mc_models[mc_last.id] = mc_last.cached_before
        /\ mc_load_times[mc_last.id] = 0
        /\ ~mc_last.engine

\* C24 as stated: a hit returns the cached handle, refreshes the timestamp
\* and does not call the engine, and Llama(...) is called at most once for
\* an id between two removals of it.
C24_EngineCalledOnce ==
    /\ HitReturnsCached
    /\ \A id \in ModelIds : mc_invoked[id] <= 1

\* C24: a hit returns the cached handle, refreshes the timestamp and does
\* not call the engine; between two removals of an id at most one call of
\* Llama(...) for it returns a model, and an id is cached only after one
\* has.  A call that raises caches nothing and the next load_model calls
\* again.
C24_EngineLoadsOnce ==
    /\ HitReturnsCached
    /\ \A id \in ModelIds :
          /\ mc_made[id] <= 1
          /\ Cached(id) <=> mc_made[id] = 1

\* A hit on a model that was cached by the second call of Llama(...), the
\* first having raised.
C24_Witness ==
    /\ mc_last.op = "load_model"
    /\ mc_last.cached_before = 1
    /\ mc_last.returned = 1
    /\ mc_load_times[mc_last.id] = 0
    /\ mc_invoked[mc_last.id] = 2
    /\ mc_made[mc_last.id] = 1

\* C25 as stated: a miss on an id that is not registered or whose file is
\* absent fails with the error of a missing file, the route answers 404,
\* and the id is not cached afterwards.
C25_MissIsNotFound ==
    (/\ Loaded
     /\ mc_last.cached_before = 0
     /\ (mc_last.id \notin model_paths \/ mc_last.file = "absent")) =>
        /\ mc_last.error = "FileNotFoundError"
        /\ mc_last.op = "inference" => mc_last.status = 404
        /\ ~Cached(mc_last.id)

\* C26: after cleanup_old_models the cache holds the models it held before
\* whose load_times is not older than max_age_minutes, and no other; and
\* /v1/cleanup reports as models_removed how many were evicted.
C26_SweepEvictsTheOld ==
    (/\ mc_last.op \in {"cleanup_old_models", "cleanup_cache"}
     /\ mc_last.error # "Forbidden") =>
        /\ \A id \in ModelIds :
              mc_models[id] # 0 <=>
                  /\ id \in mc_last.before
                  /\ mc_load_times[id] * MinutesPerTick <= mc_last.max_age
        /\ mc_last.op = "cleanup_cache" =>
              mc_last.removed =
                  Cardinality({id \in mc_last.before : mc_models[id] = 0})

\* /v1/cleanup evicted a model last used 60 minutes ago and kept one last
\* used exactly 30 minutes ago.
C26_Witness ==
    /\ mc_last.op = "cleanup_cache"
    /\ mc_last.removed = 1
    /\ \E id \in ModelIds :
          /\ mc_models[id] # 0
          /\ mc_load_times[id] * MinutesPerTick = cleanup_max_age_minutes
    /\ \E id \in mc_last.before :
          /\ mc_models[id] = 0
          /\ mc_load_times[id] * MinutesPerTick = default_max_age_minutes

\* ======================================================================
\* The health probe of the remote client: VPSClient.check_health and
\* is_available (cerebrum-pi/cerebrum/core/vps_client.py lines 80-110),
\* next to one call of inference on the same client.
\* ======================================================================
\* What comes back to the GET of /health: no answer in time, no
\* connection, a status that is not a success, or 200 with a body that is
\* not JSON, that is JSON but no object, or that is an object in which
\* "available" is true, is false or is missing.
TransportFailures == {"timeout", "connect_error"}
ErrorStatuses == {"s503", "s500", "s403", "s404"}
HealthBodies == {"not_json", "list", "available", "overloaded", "no_key"}
HealthReplies == TransportFailures \cup ErrorStatuses \cup HealthBodies

\* The dict of lines 96-100.
Unavailable == [kind |-> "dict", available |-> "false"]

\* response.json() of a body that is JSON.
Decoded(reply) ==
    IF reply = "list" THEN [kind |-> "list", available |-> "none"]
    ELSE [kind |-> "dict",
          available |-> IF reply = "available" THEN "true"
                        ELSE IF reply = "overloaded" THEN "false"
                        ELSE "missing"]

\* The statement of the try block that raises, if one does: the GET of
\* lines 88-91, raise_for_status of line 92 or json() of line 93.
RaisedInTry(reply) ==
    IF reply \in TransportFailures THEN "get"
    ELSE IF reply \in ErrorStatuses THEN "raise_for_status"
    ELSE IF reply = "not_json" THEN "json"
    ELSE "none"

\* check_health: lines 87-100.
check_health(reply) ==
    IF RaisedInTry(reply) # "none" THEN Unavailable ELSE Decoded(reply)

\* health.get("available", False): line 110.  A value that has no get
\* raises AttributeError.
is_available(health) ==
    IF health.kind # "dict" THEN [raised |-> "AttributeError", answer |-> "none"]
    ELSE [raised |-> "none",
          answer |-> IF health.available = "true" THEN "true" ELSE "false"]

\* check_health looks at the circuit breaker first.
HealthGatedByCircuit == CircuitOpen

\* check_health has no test of _last_failure_time and no `async with`:
\* nothing holds the probe back.
HealthGated == FALSE

\* The call of inference that runs next to the probes.
TheCall == 1

HealthCallers == {"check_health", "is_available"}

InitHealth ==
    /\ HealthIdle
    /\ Idle("health")

\* check_health or is_available is called and runs up to the await of the
\* GET: line 88.
CallHealth(caller) ==
    /\ hc_pc # "probing"
    /\ hc_caller' = caller
    /\ hc_open_at_call' = CircuitOpen
    /\ hc_reply' = "none"
    /\ hc_raised' = "none"
    /\ IF HealthGated
         THEN /\ hc_pc' = "done"
              /\ hc_gets' = 0
              /\ hc_returned' = Unavailable
              /\ hc_answer' = IF caller = "is_available" THEN "false" ELSE "none"
         ELSE /\ hc_pc' = "probing"
              /\ hc_gets' = 1
              /\ hc_returned' = Nothing
              /\ hc_answer' = "none"
    /\ Untouched("health")

\* The GET comes back and the call runs to its end: lines 88-100 and 110.
AnswerHealth(reply) ==
    /\ hc_pc = "probing"
    /\ hc_reply' = reply
    /\ hc_returned' = check_health(reply)
    /\ IF hc_caller = "is_available"
         THEN /\ hc_raised' = is_available(check_health(reply)).raised
              /\ hc_answer' = is_available(check_health(reply)).answer
         ELSE UNCHANGED <<hc_raised, hc_answer>>
    /\ hc_pc' = "done"
    /\ UNCHANGED <<hc_caller, hc_open_at_call, hc_gets>>
    /\ Untouched("health")

\* The task that awaits the GET is cancelled: CancelledError is no
\* Exception and passes the except clause of line 94.
CancelHealth ==
    /\ hc_pc = "probing"
    /\ hc_pc' = "cancelled"
    /\ hc_raised' = "CancelledError"
    /\ UNCHANGED <<hc_caller, hc_open_at_call, hc_gets, hc_reply, hc_returned,
                   hc_answer>>
    /\ Untouched("health")

NextHealth ==
    \/ \E caller \in HealthCallers : CallHealth(caller)
    \/ \E reply \in HealthReplies : AnswerHealth(reply)
    \/ CancelHealth
    \/ Tick
    \/ Begin(TheCall)
    \/ Wake(TheCall)
    \/ \E o \in Outcomes : Respond(TheCall, o)
    \/ Cancel(TheCall)

SpecHealth == InitHealth /\ [][NextHealth]_<<vars, hc_vars>>

\* The replies of which C27 speaks: a transport error, a timeout or a
\* status that is not a success.
FailedReplies == TransportFailures \cup ErrorStatuses

\* C27: a call of check_health that ran to its end raised nothing; when the
\* GET failed in transport, timed out or came back with a status that is no
\* success, check_health returned available = false and is_available
\* returned false; and the GET was sent whatever the state of the circuit
\* breaker was.
C27_HealthNeverRaises ==
    hc_pc = "done" =>
        /\ hc_gets = 1
        /\ hc_caller = "check_health" => hc_raised = "none"
        /\ hc_returned.kind # "none"
        /\ hc_reply \in FailedReplies =>
              /\ hc_returned = Unavailable
              /\ hc_raised = "none"
              /\ hc_caller = "is_available" => hc_answer = "false"

\* is_available was called while the circuit breaker was open and the call
\* of inference held the semaphore; the GET was sent, timed out, and the
\* answer was false.
C27_Witness ==
    /\ hc_pc = "done"
    /\ hc_caller = "is_available"
    /\ hc_open_at_call
    /\ hc_gets = 1
    /\ hc_reply = "timeout"
    /\ hc_answer = "false"
    /\ hc_raised = "none"

\* ----------------------------------------------------------------------
\* Which lines extract_instruction looks at, and where it splits.
\* ----------------------------------------------------------------------
\* The lines (numbered from 1) the loop of line 31 visits: the 0-based
\* indices of range(len(lines) - 1, max(len(lines) - MAX_SCAN_LINES, -1), -1).
ScannedWindow(lines) ==
    {i \in 1..Len(lines) : i - 1 > Max(Len(lines) - MAX_SCAN_LINES, -1)}

\* The marker set as the specification gives it: four words, each with or
\* without a comment prefix.
SpecifiedMarkers == Markers \cup {"# Task:", "Task:"}

\* C31 as stated: when a line of the scanned window begins with
\* INSTRUCTION:, REFACTOR:, TODO: or Task:, with or without a comment
\* prefix, extract_instruction splits the prompt: the instruction is not
\* empty and begins with a marker.
C31_EveryMarkerRecognised ==
    ip_pc = "returned" =>
        \A lines \in {SplitLines(strip(ip_prompt))} :
            (\E i \in ScannedWindow(lines) :
                \E m \in SpecifiedMarkers : StartsWith(strip(lines[i]), m))
            => /\ ip_instruction # ""
               /\ \E m \in SpecifiedMarkers : StartsWith(ip_instruction, m)

\* The marker line nearest to the end among the scanned lines, 0 if none.
SplitLine(lines) ==
    LET marked == {i \in ScannedWindow(lines) :
                      \E m \in Markers : StartsWith(strip(lines[i]), m)}
    IN  IF marked = {} THEN 0
        ELSE CHOOSE i \in marked : \A j \in marked : j <= i

\* Stripping the two parts takes nothing from them: the marker line is not
\* indented and the line before it is neither blank nor ends in a blank.
NothingToStrip(lines, i) ==
    /\ lines[i] = lstrip(lines[i])
    /\ i > 1 => (lines[i - 1] # "" /\ lines[i - 1] = rstrip(lines[i - 1]))

\* C32 as stated: the prompt is split at the marker line nearest to the
\* end among the scanned lines, and the lines of code followed by the lines
\* of instruction are the lines of the stripped prompt; with no marker
\* among the scanned lines the result is (prompt, "").
C32_SplitReproducesLines ==
    ip_pc = "returned" =>
        \A lines \in {SplitLines(strip(ip_prompt))} :
            \A i \in {SplitLine(lines)} :
                IF i = 0
                  THEN ip_code = ip_prompt /\ ip_instruction = ""
                  ELSE /\ Len(SplitLines(ip_code)) = i - 1
                       /\ SplitLines(ip_code) \o SplitLines(ip_instruction) = lines

\* C32 amended: the prompt is split at the marker line nearest to the end
\* among the scanned lines; code is the lines before it joined and stripped
\* and instruction is the lines from it on joined and stripped, so that the
\* lines of code followed by the lines of instruction are the lines of the
\* stripped prompt when stripping takes nothing from the two parts; with no
\* marker among the scanned lines the result is (prompt, "").
C32_SplitAtNearestMarker ==
    ip_pc = "returned" =>
        \A lines \in {SplitLines(strip(ip_prompt))} :
            \A i \in {SplitLine(lines)} :
                IF i = 0
                  THEN ip_code = ip_prompt /\ ip_instruction = ""
                  ELSE /\ ip_code = strip(Join("\n", SubSeq(lines, 1, i - 1)))
                       /\ ip_instruction =
                            strip(Join("\n", SubSeq(lines, i, Len(lines))))
                       /\ NothingToStrip(lines, i) =>
                            /\ Len(SplitLines(ip_code)) = i - 1
                            /\ SplitLines(ip_code) \o SplitLines(ip_instruction)
                                 = lines

\* A prompt with two marker lines among the scanned ones was split at the
\* second: the first is a line of code.
C32_Witness ==
    /\ ip_pc = "returned"
    /\ ip_prompt = "TODO: old\na\nREFACTOR: do it\nb\nb\n"
    /\ ip_code = "TODO: old\na"
    /\ ip_instruction = "REFACTOR: do it\nb\nb"

\* ----------------------------------------------------------------------
\* Which chunks assemble_prompt includes.
\* ----------------------------------------------------------------------
\* len(chunks[0]) + ... + len(chunks[n-1]).
RECURSIVE TotalLen(_, _)
TotalLen(chunks, n) ==
    IF n = 0 THEN 0 ELSE TotalLen(chunks, n - 1) + Len(chunks[n])

\* How many chunks from the first on fit: the running total of user_prompt
\* and the chunks stays within the budget.
Fitting(user_prompt, chunks, budget) ==
    LET fits == {n \in 0..Len(chunks) :
                    \A j \in 1..n : Len(user_prompt) + TotalLen(chunks, j) <= budget}
    IN  CHOOSE n \in fits : \A m \in fits : m <= n

\* C33: assemble_prompt includes the chunks from the first up to the one
\* before the first that would push the running total past
\* max_context_chars, in order, labelled CONTEXT 1 to CONTEXT n, and none
\* after it; when that is none of them it returns user_prompt unchanged.
C33_PrefixOfChunks ==
    am_pc = "returned" =>
        \A n \in {Fitting(am_user_prompt, am_chunks, am_budget)} :
            IF n = 0 THEN am_result = am_user_prompt
            ELSE am_result =
                   Template(Join("\n\n",
                                 [i \in 1..n |->
                                     "CONTEXT " \o ToString(i) \o ":\n" \o am_chunks[i]]),
                            am_user_prompt)

\* The first chunk was included, the second was too long and the third,
\* which would have fitted, was left out.
C33_Witness ==
    /\ am_pc = "returned"
    /\ am_user_prompt = "u"
    /\ am_chunks = <<"c", "cc", "c">>
    /\ am_budget = 3
    /\ am_result = Template("CONTEXT 1:\nc", "u")

\* ----------------------------------------------------------------------
\* The three dicts of the model cache taken together.
\* ----------------------------------------------------------------------
\* The ids with an entry in load_times and in inference_count.
Tracked == {id \in ModelIds : mc_load_times[id] # -1 /\ mc_inference_count[id] # -1}

\* C34 as stated: unload_model tells whether the model was cached and
\* leaves it uncached, and at all times the ids that have a last-used
\* timestamp and an inference count are the ids that have a cached handle.
C34_EntryDestroyedWhole ==
    /\ (mc_last.op = "unload_model" /\ mc_last.error # "Forbidden") =>
          /\ mc_last.status = 200 <=> mc_last.cached_before # 0
          /\ ~Cached(mc_last.id)
    /\ Tracked = CachedIn(mc_models)

\* ======================================================================
\* The statistics and the failure stamp of the remote client, under Spec.
\* ======================================================================
\* No call is between its circuit check and its end.
NoneActive == \A c \in Calls : pc[c] \in {"idle", "raised", "returned"}

\* C35 as stated: the calls that ended in success and those that ended in
\* failure are never more than the calls that passed the circuit check,
\* and are as many when no call is active (a cancelled call, which counts
\* in neither, set aside).
C35_EveryCallCountedOnce ==
    /\ requests_successful + requests_failed <= requests_sent
    /\ NoneActive => requests_successful + requests_failed = requests_sent

\* The call was turned away by the circuit check in this step.
Rejected(c) ==
    /\ Called(c)
    /\ pc'[c] = "raised"
    /\ raised'[c] = VPSUnavailableError("cooldown")

\* C36: a call turned away by the circuit check leaves requests_sent,
\* requests_successful, requests_failed, the failure stamp and the
\* semaphore as they were and sends nothing; the age of the last failure
\* grows by the second whatever calls are turned away meanwhile, and starts
\* again only when a call records a failure.
C36_RejectionChangesNothing ==
    [][/\ \A c \in Calls :
             Rejected(c) =>
                 /\ UNCHANGED <<stats, failure_age, semaphore, posts>>
                 /\ posts[c] = 0
       /\ failure_age' # failure_age =>
             \/ /\ failure_age' = failure_age + 1
                /\ UNCHANGED <<pc, stats>>
             \/ /\ failure_age' = StampedNow
                /\ requests_failed' = requests_failed + 1]_vars

\* A call failed, another was turned away during the cooldown, and the
\* circuit has closed again _cooldown_seconds after the failure.
C36_Witness ==
    \E c, d \in Calls :
        /\ pc[c] = "raised" /\ raised[c] # VPSUnavailableError("cooldown")
        /\ pc[d] = "raised" /\ raised[d] = VPSUnavailableError("cooldown")
        /\ requests_sent = 1
        /\ requests_failed = 1
        /\ ~CircuitOpen

\* The call ends in failure in this step: lines 234-238.
Fails(c) ==
    /\ pc[c] = "posting"
    /\ pc'[c] = "raised"
    /\ requests_failed' = requests_failed + 1

\* C37: the failure stamp is set only in the step in which a call ends in
\* failure after its attempt loop; a step in which a call returns a result,
\* and a step in which a failed attempt goes on to its backoff sleep, leave
\* it as it was.
C37_StampedOnlyByFailure ==
    [][/\ (failure_age' < failure_age) =>
             failure_age' = StampedNow /\ \E c \in Calls : Fails(c)
       /\ \A c \in Calls :
             (pc[c] = "posting" /\ pc'[c] \in {"returned", "sleeping"})
                 => UNCHANGED <<failure_age, requests_failed>>]_vars

\* A call whose first attempt timed out has returned the result of its
\* second attempt, and the circuit is closed as it was when the client was
\* constructed.
C37_Witness ==
    \E c \in Calls :
        /\ pc[c] = "returned"
        /\ returned[c] = 2
        /\ requests_failed = 0
        /\ failure_age = cooldown_seconds

\* ======================================================================
\* The pipeline again: prompts without an instruction, and the helper
\* against the inline copies.
\* ======================================================================
\* C38: for a prompt in which extract_instruction finds no instruction,
\* whatever its length, an assembled prompt is at least as long as the
\* original and has the whole original in it, the 90% guard turns it
\* down, and the prompt handed on is the original.
C38_NeverCompressedWithoutInstruction ==
    pl_pc = "dispatched" /\ pl_instruction = "" =>
        /\ pl_dispatched = pl_prompt
        /\ pl_code = pl_prompt
        /\ pl_branch \in {"untouched", "few_chunks", "not_reduced"}
        /\ pl_branch = "not_reduced" =>
              /\ Len(pl_assembled) >= Len(pl_prompt)
              /\ InsufficientReduction(pl_assembled, pl_prompt)
              /\ \/ pl_assembled = pl_prompt
                 \/ \E context \in {SubSeq(pl_assembled, 1,
                                           Len(pl_assembled) - Len(pl_prompt) - 1)} :
                       /\ StartsWith(context, "SYSTEM:\n")
                       /\ pl_assembled = context \o pl_prompt \o "\n"

\* The short last chunk of a prompt without instruction fitted the budget:
\* the assembled prompt, context and original, was longer than the
\* original and the route handed on the original.
C38_Witness ==
    /\ pl_pc = "dispatched"
    /\ pl_route = "code_completion"
    /\ pl_instruction = ""
    /\ pl_branch = "not_reduced"
    /\ Len(pl_assembled) > Len(pl_prompt)
    /\ pl_dispatched = pl_prompt
    /\ requests_sent = 1

\* C39 as stated: for every prompt that comes in, what a route hands on is
\* what apply_smart_chunking returns for it.
C39_HelperAndInlineAgree ==
    pl_pc = "dispatched" =>
        pl_dispatched = Pipeline(pl_prompt, FALSE).prompt

\* ======================================================================
\* Progress of the remote client.  The event loop runs every coroutine
\* that is ready (a call that was handed the permit, a call whose sleep is
\* over), the clock goes on, and every POST comes back, with an answer or
\* with an exception of httpx (the client is built with timeouts for
\* connect, read, write and pool: lines 56-63).  Cancellation is up to the
\* caller and is under no obligation to happen.
\* ======================================================================
\* One outcome for each way an attempt can go on: the call returns (line
\* 184), the except clause sleeps and continues or, with no attempt left,
\* falls out of the loop (lines 203-208), the except clause breaks (lines
\* 217-220).  The other outcomes take one of these ways with another error.
LiveOutcomes == {"ok200", "timeout", "s503"}

NextFair ==
    \/ Tick
    \/ \E c \in Calls : Reject(c)
    \/ \E c \in Calls : Begin(c)
    \/ \E c \in Calls : Resume(c)
    \/ \E c \in Calls : Wake(c)
    \/ \E c \in Calls, o \in LiveOutcomes : Respond(c, o)
    \/ \E c \in Calls : Cancel(c)

Fairness ==
    /\ WF_vars(Tick)
    /\ \A c \in Calls :
          /\ WF_vars(Resume(c))
          /\ WF_vars(Wake(c))
          /\ WF_vars(\E o \in LiveOutcomes : Respond(c, o))

SpecFair == Init /\ [][NextFair]_vars /\ Fairness

\* A call is under way, and a call is over.
Active(c) == pc[c] \in {"waiting", "granted", "posting", "sleeping"}
Finished(c) == pc[c] \in {"returned", "raised", "cancelled"}

\* C40: every call that is under way comes to an end, returning or
\* raising (or cancelled by its caller), and every call that waits for the
\* permit gets it (or is cancelled while it waits).
C40_EveryCallFinishes ==
    \A c \in Calls :
        /\ Active(c) ~> Finished(c)
        /\ (pc[c] = "waiting") ~> (pc[c] \in {"granted", "cancelled"})

\* The second call waited for the permit while the first slept between
\* attempts, and has returned a result.
C40_Witness ==
    \E c, d \in Calls :
        /\ c # d
        /\ pc[c] = "returned"
        /\ returned[c] = 2
        /\ pc[d] = "returned"
        /\ requests_sent = 2
        /\ requests_successful = 2
====
